---- MODULE Spec2Model ----
(***************************************************************************)
(* Inventory + electronic-invoice core of Inventario-api.                  *)
(*                                                                         *)
(* Database state is the committed content of the PostgreSQL tables        *)
(* (stock, products.cost, inventory_movements, invoices, invoice_details). *)
(* A transaction (TxRunner.Run / TxRunner.RunBilling) buffers its writes   *)
(* and holds row locks until Commit or Rollback (READ COMMITTED).          *)
(* Quantities are whole units, money is in cents.                          *)
(***************************************************************************)
EXTENDS Integers, Sequences, FiniteSets, TLC

\* ------------------------------------------------------------------ bounds
NumProducts == 1
NumWarehouses == 2
MaxTx == 2
MaxRequests == 2
MaxQty == 2
MaxUnitCost == 1
MaxItems == 2
MaxNumber == 1
MaxInitStock == 3
MaxTasks == 2
MaxOutRequests == 3
MaxDianRequests == 1
MaxDianItems == 1

Products == 1..NumProducts
Warehouses == 1..NumWarehouses
StockKeys == Products \X Warehouses
TxIds == 1..MaxTx
Quantities == (0 - MaxQty)..MaxQty
\* unit costs offered by requests, in cents; NilCost is an absent unit_cost
NilCost == 0 - 1
UnitCosts == {100 * c : c \in 0..MaxUnitCost}
Numbers == 1..MaxNumber

\* ------------------------------------------------------------ DIAN status
DIANStatusDraft == "DRAFT"
DIANStatusSigned == "SIGNED"
DIANStatusExitoso == "EXITOSO"
DIANStatusRechazado == "RECHAZADO"
DIANStatusErrorGeneration == "ERROR_GENERATION"

VARIABLES
    stock,        \* [StockKeys -> [exists, quantity]]   table stock (committed)
    cost,         \* [Products -> Int]                   products.cost (committed, cents)
    movements,    \* Seq of movement rows                inventory_movements (committed)
    invoices,     \* set of invoice rows                 invoices (committed)
    details,      \* set of invoice lines                invoice_details (committed)
    stockLock,    \* [StockKeys -> 0..MaxTx]             row lock holder in stock, 0 = free
    productLock,  \* [Products -> 0..MaxTx]              row lock holder in products
    tx,           \* [TxIds -> transaction record]       in-flight request of each connection
    reqs,         \* Seq of request records (history of the requests and their results)
    tasks,        \* Seq of orchestration task records (goroutines of DIANOrchestrator.process)
    soapCalls,    \* Seq of invoice ids, one per call of DIANSubmitter.SubmitZip
    config,       \* DIANConfig and module flags, fixed at start-up
    initStock,    \* [StockKeys -> Int] quantity of each stock row in the initial state
    sale,         \* Seq of billing calls of one client: request, error kind, persisted rows
    http,         \* Seq of HTTP requests through the middleware chain and their responses
    cufeRun,      \* Seq of CufeCalculatorService.Calculate calls: input and pre-hash string
    nitRun        \* Seq of NIT validations: the digits given and the verdict

vars == <<stock, cost, movements, invoices, details, stockLock, productLock,
          tx, reqs, tasks, soapCalls, config, initStock,
          sale, http, cufeRun, nitRun>>

dbVars == <<stock, cost, movements, invoices, details>>
dianVars == <<tasks, soapCalls>>
fnVars == <<sale, http, cufeRun, nitRun>>

\* ---------------------------------------------------------------- helpers
NoRow == [exists |-> FALSE, quantity |-> 0]
Row(q) == [exists |-> TRUE, quantity |-> q]
NoStockWrites == [k \in StockKeys |-> NoRow]
NoCostWrites == [p \in Products |-> [written |-> FALSE, cost |-> 0]]

IdleTx ==
    [pc |-> "idle", req |-> 0, kind |-> "none", route |-> "none",
     p |-> 0, w |-> 0, to |-> 0, qty |-> 0, unitCost |-> 0, prodCost |-> 0,
     read |-> 0, dest |-> 0, items |-> <<>>, i |-> 0, number |-> 0,
     hasInventory |-> FALSE,
     wStock |-> NoStockWrites, wCost |-> NoCostWrites, wMov |-> <<>>,
     wInv |-> {}, wDet |-> {}]

\* division rounded half away from zero (PostgreSQL numeric rounding), d > 0
RoundDiv(n, d) ==
    IF n >= 0 THEN (2 * n + d) \div (2 * d)
    ELSE 0 - ((2 * (0 - n) + d) \div (2 * d))

Movement(req, p, w, type, qty, unitCost) ==
    [tx |-> req, p |-> p, w |-> w, type |-> type, qty |-> qty,
     unitCost |-> unitCost, totalCost |-> qty * unitCost]

Request(kind, p, w, to, qty, unitCost, items, number) ==
    [kind |-> kind, p |-> p, w |-> w, to |-> to, qty |-> qty,
     unitCost |-> unitCost, items |-> items, number |-> number,
     result |-> "pending"]

\* the rows of invoice id in inventory_movements, invoice_details, invoices
MovementsOf(ms, id) == SelectSeq(ms, LAMBDA m : m.tx = id)
DetailsOf(ds, id) == {d \in ds : d.invoice = id}
HeadersOf(hs, id) == {h \in hs : h.id = id}

\* ------------------------------------------------- PostgreSQL primitives
\* the row of stock a statement of transaction t sees: its own write, else the
\* committed row (READ COMMITTED)
VisibleRow(t, k) == IF tx[t].wStock[k].exists THEN tx[t].wStock[k] ELSE stock[k]

\* products.cost as seen by a statement of transaction t
VisibleCost(t, p) == IF tx[t].wCost[p].written THEN tx[t].wCost[p].cost ELSE cost[p]

\* the same SELECT without FOR UPDATE
GetForUpdate_NoLock(t, k) ==
    [enabled |-> TRUE, lock |-> stockLock, quantity |-> VisibleRow(t, k).quantity]

\* StockRepo.GetForUpdate: SELECT ... FOR UPDATE. A row that exists is locked
\* (waiting for the holder); no row: nothing is locked and quantity 0 is returned.
GetForUpdate(t, k) ==
    [enabled  |-> (stock[k].exists => stockLock[k] \in {0, t}),
     lock     |-> IF VisibleRow(t, k).exists
                  THEN [stockLock EXCEPT ![k] = t] ELSE stockLock,
     quantity |-> VisibleRow(t, k).quantity]

\* StockRepo.Get: plain SELECT, never waits, locks nothing
Get(t, k) == VisibleRow(t, k).quantity

\* the CHECK constraint left out of the table definition
StockCheck_Missing(q) == TRUE

\* stock.quantity CHECK (quantity >= 0)
StockCheck(q) == q >= 0

\* StockRepo.Upsert: INSERT ... ON CONFLICT DO UPDATE waits for the lock holder
UpsertEnabled(t, k) == stockLock[k] \in {0, t}

ReleaseLocks(t, locks) == [x \in DOMAIN locks |-> IF locks[x] = t THEN 0 ELSE locks[x]]

\* CostCalculator, with the quotient rounded as products.cost DECIMAL(15,2) stores it
CostCalculator(stockActual, costoActual, cantEntrada, costoEntrada) ==
    LET sum == stockActual + cantEntrada
        num == stockActual * costoActual + cantEntrada * costoEntrada
    IN IF sum <= 0 THEN 0 ELSE RoundDiv(num, sum)

RECURSIVE SumQtyIN(_, _)
SumQtyIN(s, p) ==
    IF s = <<>> THEN 0
    ELSE (IF Head(s).type = "IN" /\ Head(s).p = p THEN Head(s).qty ELSE 0)
         + SumQtyIN(Tail(s), p)

RECURSIVE SumCostIN(_, _)
SumCostIN(s, p) ==
    IF s = <<>> THEN 0
    ELSE (IF Head(s).type = "IN" /\ Head(s).p = p THEN Head(s).totalCost ELSE 0)
         + SumCostIN(Tail(s), p)

\* trigger actualizar_costo_promedio, AFTER INSERT of row m by transaction t:
\* the product's cost writes of t after the trigger ran
actualizar_costo_promedio(t, m, wCost) ==
    LET visible == movements \o tx[t].wMov \o <<m>>
        totalQty == SumQtyIN(visible, m.p)
        totalCost == SumCostIN(visible, m.p)
        \* v_new_cost DECIMAL(15,4), then ROUND(.,4), then the column's 2 decimals
        newCost4 == RoundDiv(totalCost * 100, totalQty)
    IN IF m.type # "IN" \/ m.qty <= 0 THEN wCost
       ELSE IF totalQty > 0
            THEN [wCost EXCEPT ![m.p] = [written |-> TRUE, cost |-> RoundDiv(newCost4, 100)]]
            ELSE wCost

\* ------------------------------------------------------- end of a request
\* a goroutine of DIANOrchestrator.process(invoiceID) that has not run yet:
\* entry is the status it reads on entry, st .. errors its in-memory copy of
\* the invoice, written the status changes its Updates made (from, to), failure
\* the step that failed
NewTask(id) ==
    [inv |-> id, pc |-> "start", entry |-> "none", number |-> 0, st |-> "", cufe |-> "",
     uuid |-> "", xml |-> "", qr |-> "", track |-> "", errors |-> "", written |-> <<>>,
     failure |-> "none"]

\* ProcessAsync called whether or not RunBilling returned an error
ShouldDispatch_Always(committed) == config.technicalKey # ""

\* CreateInvoice after RunBilling returned: an error returns at once, otherwise
\* ProcessAsync is called when a technical key is configured
ShouldDispatch(committed) == committed /\ config.technicalKey # ""

\* a Rollback that leaves the transaction's stock writes in the table
RollbackStock_KeepWrites(t) ==
    [k \in StockKeys |-> IF tx[t].wStock[k].exists THEN tx[t].wStock[k] ELSE stock[k]]

\* the tables after TxRunner's Rollback: the buffered writes are dropped
RollbackStock(t) == stock

Rollback(t, result) ==
    /\ tx' = [tx EXCEPT ![t] = IdleTx]
    /\ reqs' = [reqs EXCEPT ![tx[t].req].result = result]
    /\ stockLock' = ReleaseLocks(t, stockLock)
    /\ productLock' = ReleaseLocks(t, productLock)
    /\ stock' = RollbackStock(t)
    /\ tasks' = IF tx[t].kind = "INVOICE" /\ ShouldDispatch(FALSE)
                THEN Append(tasks, NewTask(tx[t].req)) ELSE tasks
    /\ UNCHANGED <<cost, movements, invoices, details>>

Reject(r) ==
    /\ reqs' = Append(reqs, [r EXCEPT !.result = "InvalidInput"])
    /\ UNCHANGED <<dbVars, stockLock, productLock, tx>>

Start(t, r, fields) ==
    /\ reqs' = Append(reqs, r)
    /\ tx' = [tx EXCEPT ![t] = fields]
    /\ UNCHANGED <<dbVars, stockLock, productLock>>

CanBegin(t) == tx[t].pc = "idle" /\ Len(reqs) < config.maxRequests

\* ------------------------------------- RegisterMovement: validation, begin
\* the field validation of RegisterMovement (product and warehouses exist and
\* belong to the caller's company in this model)
ValidMovement(type, w, to, qty, unitCost) ==
    CASE type \in {"IN", "OUT", "ADJUSTMENT"} ->
            /\ qty # 0
            /\ ~(type = "IN" /\ (unitCost = NilCost \/ unitCost < 0))
            /\ ~(type = "OUT" /\ qty < 0)
      [] type = "TRANSFER" -> w # to /\ qty > 0
      [] OTHER -> FALSE

\* the transaction record of a movement request; product.Cost is read here,
\* before the transaction begins
MovementTx(req, type, route, firstPc, p, w, to, qty, unitCost) ==
    [IdleTx EXCEPT !.pc = firstPc, !.req = req, !.kind = type, !.route = route,
                   !.p = p, !.w = w, !.to = to, !.qty = qty,
                   !.unitCost = unitCost, !.prodCost = cost[p]]

BeginIN(t) ==
    /\ CanBegin(t)
    /\ \E p \in Products, w \in Warehouses, q \in Quantities :
       \E c \in IF q = MaxQty THEN UnitCosts \cup {NilCost} ELSE UnitCosts :
          LET r == Request("IN", p, w, 0, q, c, <<>>, 0) IN
          IF ValidMovement("IN", w, 0, q, c)
          THEN Start(t, r, MovementTx(Len(reqs) + 1, "IN", "IN", "in_lock", p, w, 0, q, c))
          ELSE Reject(r)
    /\ UNCHANGED <<dianVars, config, initStock, fnVars>>

BeginOUT(t) ==
    /\ CanBegin(t)
    /\ \E p \in Products, w \in Warehouses, q \in Quantities :
          LET r == Request("OUT", p, w, 0, q, NilCost, <<>>, 0) IN
          IF ValidMovement("OUT", w, 0, q, NilCost)
          THEN Start(t, r, MovementTx(Len(reqs) + 1, "OUT", "OUT", "out_lock", p, w, 0, q, NilCost))
          ELSE Reject(r)
    /\ UNCHANGED <<dianVars, config, initStock, fnVars>>

\* doADJUSTMENT: a positive quantity goes through doIN (unit cost 0 when absent),
\* a negative one through doOUT with the quantity negated
BeginADJUSTMENT(t) ==
    /\ CanBegin(t)
    /\ \E p \in Products, w \in Warehouses, q \in Quantities :
       \E c \in IF q > 0 THEN UnitCosts \cup {NilCost} ELSE {NilCost} :
          LET r == Request("ADJUSTMENT", p, w, 0, q, c, <<>>, 0) IN
          IF ~ValidMovement("ADJUSTMENT", w, 0, q, c) THEN Reject(r)
          ELSE IF q > 0
               THEN Start(t, r, MovementTx(Len(reqs) + 1, "ADJUSTMENT", "IN", "in_lock", p, w, 0, q,
                                           IF c = NilCost THEN 0 ELSE c))
               ELSE Start(t, r, MovementTx(Len(reqs) + 1, "ADJUSTMENT", "OUT", "out_lock", p, w, 0,
                                           0 - q, c))
    /\ UNCHANGED <<dianVars, config, initStock, fnVars>>

BeginTRANSFER(t) ==
    /\ CanBegin(t)
    /\ \E p \in Products, from \in Warehouses, to \in Warehouses, q \in Quantities :
          LET r == Request("TRANSFER", p, from, to, q, NilCost, <<>>, 0) IN
          IF ValidMovement("TRANSFER", from, to, q, NilCost)
          THEN Start(t, r, MovementTx(Len(reqs) + 1, "TRANSFER", "TRANSFER", "tr_lock", p, from, to, q, NilCost))
          ELSE Reject(r)
    /\ UNCHANGED <<dianVars, config, initStock, fnVars>>

\* ------------------------------------------------------------------ doIN
doIN_GetForUpdate(t) ==
    /\ tx[t].pc = "in_lock"
    /\ LET g == GetForUpdate(t, <<tx[t].p, tx[t].w>>) IN
          /\ g.enabled
          /\ stockLock' = g.lock
          /\ tx' = [tx EXCEPT ![t].read = g.quantity, ![t].pc = "in_cost"]
    /\ UNCHANGED <<dbVars, productLock, reqs, dianVars, config, initStock, fnVars>>

\* productRepo.UpdateCost: UPDATE products takes the product's row lock
doIN_UpdateCost(t) ==
    /\ tx[t].pc = "in_cost"
    /\ productLock[tx[t].p] \in {0, t}
    /\ productLock' = [productLock EXCEPT ![tx[t].p] = t]
    /\ tx' = [tx EXCEPT ![t].pc = "in_upsert",
                        ![t].wCost[tx[t].p] =
                            [written |-> TRUE,
                             cost |-> CostCalculator(tx[t].read, tx[t].prodCost,
                                                     tx[t].qty, tx[t].unitCost)]]
    /\ UNCHANGED <<dbVars, stockLock, reqs, dianVars, config, initStock, fnVars>>

\* stockRepo.Upsert(newQty) and movRepo.Create (which fires the cost trigger)
doIN_Upsert(t) ==
    /\ tx[t].pc = "in_upsert"
    /\ LET k == <<tx[t].p, tx[t].w>>
           newQty == tx[t].read + tx[t].qty
           mov == Movement(tx[t].req, tx[t].p, tx[t].w, "IN", tx[t].qty, tx[t].unitCost)
       IN /\ UpsertEnabled(t, k)
          /\ IF StockCheck(newQty)
             THEN /\ stockLock' = [stockLock EXCEPT ![k] = t]
                  /\ tx' = [tx EXCEPT ![t].pc = "commit",
                                      ![t].wStock[k] = Row(newQty),
                                      ![t].wCost = actualizar_costo_promedio(t, mov, tx[t].wCost),
                                      ![t].wMov = Append(tx[t].wMov, mov)]
                  /\ UNCHANGED <<dbVars, productLock, reqs, tasks>>
             ELSE Rollback(t, "DBError")
    /\ UNCHANGED <<soapCalls, config, initStock, fnVars>>

\* ----------------------------------------------------------------- doOUT
doOUT_GetForUpdate(t) ==
    /\ tx[t].pc = "out_lock"
    /\ LET g == GetForUpdate(t, <<tx[t].p, tx[t].w>>) IN
          /\ g.enabled
          /\ IF g.quantity < tx[t].qty
             THEN Rollback(t, "InsufficientStock")
             ELSE /\ stockLock' = g.lock
                  /\ tx' = [tx EXCEPT ![t].read = g.quantity, ![t].pc = "out_upsert"]
                  /\ UNCHANGED <<dbVars, productLock, reqs, tasks>>
    /\ UNCHANGED <<soapCalls, config, initStock, fnVars>>

doOUT_Upsert(t) ==
    /\ tx[t].pc = "out_upsert"
    /\ LET k == <<tx[t].p, tx[t].w>>
           newQty == tx[t].read - tx[t].qty
           mov == Movement(tx[t].req, tx[t].p, tx[t].w, "OUT", 0 - tx[t].qty, tx[t].prodCost)
       IN /\ UpsertEnabled(t, k)
          /\ IF StockCheck(newQty)
             THEN /\ stockLock' = [stockLock EXCEPT ![k] = t]
                  /\ tx' = [tx EXCEPT ![t].pc = "commit",
                                      ![t].wStock[k] = Row(newQty),
                                      ![t].wCost = actualizar_costo_promedio(t, mov, tx[t].wCost),
                                      ![t].wMov = Append(tx[t].wMov, mov)]
                  /\ UNCHANGED <<dbVars, productLock, reqs, tasks>>
             ELSE Rollback(t, "DBError")
    /\ UNCHANGED <<soapCalls, config, initStock, fnVars>>

\* ------------------------------------------------------------ doTRANSFER
doTRANSFER_GetForUpdate(t) ==
    /\ tx[t].pc = "tr_lock"
    /\ LET g == GetForUpdate(t, <<tx[t].p, tx[t].w>>) IN
          /\ g.enabled
          /\ IF g.quantity < tx[t].qty
             THEN Rollback(t, "InsufficientStock")
             ELSE /\ stockLock' = g.lock
                  /\ tx' = [tx EXCEPT ![t].read = g.quantity, ![t].pc = "tr_dest"]
                  /\ UNCHANGED <<dbVars, productLock, reqs, tasks>>
    /\ UNCHANGED <<soapCalls, config, initStock, fnVars>>

\* stockRepo.Get on the destination row: read without a lock
doTRANSFER_GetDest(t) ==
    /\ tx[t].pc = "tr_dest"
    /\ tx' = [tx EXCEPT ![t].dest = Get(t, <<tx[t].p, tx[t].to>>), ![t].pc = "tr_upsert_origin"]
    /\ UNCHANGED <<dbVars, stockLock, productLock, reqs, dianVars, config, initStock, fnVars>>

doTRANSFER_UpsertOrigin(t) ==
    /\ tx[t].pc = "tr_upsert_origin"
    /\ LET k == <<tx[t].p, tx[t].w>>
           newQty == tx[t].read - tx[t].qty
       IN /\ UpsertEnabled(t, k)
          /\ IF StockCheck(newQty)
             THEN /\ stockLock' = [stockLock EXCEPT ![k] = t]
                  /\ tx' = [tx EXCEPT ![t].pc = "tr_upsert_dest", ![t].wStock[k] = Row(newQty)]
                  /\ UNCHANGED <<dbVars, productLock, reqs, tasks>>
             ELSE Rollback(t, "DBError")
    /\ UNCHANGED <<soapCalls, config, initStock, fnVars>>

doTRANSFER_UpsertDest(t) ==
    /\ tx[t].pc = "tr_upsert_dest"
    /\ LET k == <<tx[t].p, tx[t].to>>
           newQty == tx[t].dest + tx[t].qty
       IN /\ UpsertEnabled(t, k)
          /\ IF StockCheck(newQty)
             THEN /\ stockLock' = [stockLock EXCEPT ![k] = t]
                  /\ tx' = [tx EXCEPT ![t].pc = "tr_movements", ![t].wStock[k] = Row(newQty)]
                  /\ UNCHANGED <<dbVars, productLock, reqs, tasks>>
             ELSE Rollback(t, "DBError")
    /\ UNCHANGED <<soapCalls, config, initStock, fnVars>>

\* productRepo.GetByID inside the transaction, then the two TRANSFER movements
doTRANSFER_Movements(t) ==
    /\ tx[t].pc = "tr_movements"
    /\ LET unitCost == VisibleCost(t, tx[t].p)
           outMov == Movement(tx[t].req, tx[t].p, tx[t].w, "TRANSFER", 0 - tx[t].qty, unitCost)
           inMov == Movement(tx[t].req, tx[t].p, tx[t].to, "TRANSFER", tx[t].qty, unitCost)
       IN tx' = [tx EXCEPT ![t].pc = "commit",
                           ![t].wMov = tx[t].wMov \o <<outMov, inMov>>]
    /\ UNCHANGED <<dbVars, stockLock, productLock, reqs, dianVars, config, initStock, fnVars>>

\* --------------------------------------------------------- CreateInvoice
ItemQuantities == 0..MaxQty
ItemSeqs == UNION {[1..n -> Products \X ItemQuantities] : n \in 1..MaxItems}

\* pre-transaction validation of the items (customer, company, warehouse and
\* products exist and belong to the caller's company in this model)
ValidItems(items) == \A i \in DOMAIN items : items[i][2] > 0

InvoiceRow(id, number) ==
    [id |-> id, number |-> number, status |-> DIANStatusDraft, cufe |-> "", uuid |-> "",
     xml |-> "", qr |-> "", track |-> "", errors |-> ""]

BeginInvoice(t) ==
    /\ CanBegin(t)
    /\ \E w \in Warehouses, n \in Numbers, lookupOk \in BOOLEAN :
       \E items \in {s \in ItemSeqs : Len(s) <= config.maxItems} :
          LET r == Request("INVOICE", 0, w, 0, 0, NilCost, items, n)
              \* hasInventory, _ := HasActiveModule(...): false when the lookup fails
              hasInventory == config.hasInventory /\ lookupOk
              \* productsByID: the products as read before the transaction
              snap == [i \in DOMAIN items |->
                         [p |-> items[i][1], qty |-> items[i][2], cost |-> cost[items[i][1]]]]
          IN IF ValidItems(items)
             THEN Start(t, r, [IdleTx EXCEPT !.pc = IF hasInventory THEN "inv_lock"
                                                     ELSE "inv_create",
                                             !.req = Len(reqs) + 1, !.kind = "INVOICE",
                                             !.route = "INVOICE", !.w = w, !.items = snap,
                                             !.i = 1, !.number = n,
                                             !.hasInventory = hasInventory])
             ELSE Reject(r)
    /\ UNCHANGED <<dianVars, config, initStock, fnVars>>

\* RegisterOUTInTx, first half: GetForUpdate and the stock check of item i
RegisterOUTInTx_GetForUpdate(t) ==
    /\ tx[t].pc = "inv_lock"
    /\ LET item == tx[t].items[tx[t].i]
           g == GetForUpdate(t, <<item.p, tx[t].w>>)
       IN /\ g.enabled
          /\ IF g.quantity < item.qty
             THEN Rollback(t, "InsufficientStock")
             ELSE /\ stockLock' = g.lock
                  /\ tx' = [tx EXCEPT ![t].read = g.quantity, ![t].pc = "inv_upsert"]
                  /\ UNCHANGED <<dbVars, productLock, reqs, tasks>>
    /\ UNCHANGED <<soapCalls, config, initStock, fnVars>>

\* RegisterOUTInTx, second half: Upsert and the OUT movement tagged with the
\* invoice id; then the next item, or the header
RegisterOUTInTx_Upsert(t) ==
    /\ tx[t].pc = "inv_upsert"
    /\ LET item == tx[t].items[tx[t].i]
           k == <<item.p, tx[t].w>>
           newQty == tx[t].read - item.qty
           mov == Movement(tx[t].req, item.p, tx[t].w, "OUT", 0 - item.qty, item.cost)
       IN /\ UpsertEnabled(t, k)
          /\ IF StockCheck(newQty)
             THEN /\ stockLock' = [stockLock EXCEPT ![k] = t]
                  /\ tx' = [tx EXCEPT ![t].pc = IF tx[t].i < Len(tx[t].items)
                                                THEN "inv_lock" ELSE "inv_create",
                                      ![t].i = tx[t].i + 1,
                                      ![t].wStock[k] = Row(newQty),
                                      ![t].wMov = Append(tx[t].wMov, mov)]
                  /\ UNCHANGED <<dbVars, productLock, reqs, tasks>>
             ELSE Rollback(t, "DBError")
    /\ UNCHANGED <<soapCalls, config, initStock, fnVars>>

\* invoiceRepo.Create and invoiceRepo.CreateDetail for every line. The unique
\* index (company, prefix, number) makes the INSERT wait for a transaction that
\* inserted the same number, and fail once such a row is committed.
CreateInvoice_Persist(t) ==
    /\ tx[t].pc = "inv_create"
    /\ \A u \in TxIds \ {t} : \A h \in tx[u].wInv : h.number # tx[t].number
    /\ IF \E h \in invoices : h.number = tx[t].number
       THEN Rollback(t, "Duplicate")
       ELSE /\ tx' = [tx EXCEPT ![t].pc = "commit",
                                ![t].wInv = {InvoiceRow(tx[t].req, tx[t].number)},
                                ![t].wDet = {[invoice |-> tx[t].req, line |-> i,
                                              p |-> tx[t].items[i].p,
                                              qty |-> tx[t].items[i].qty] :
                                             i \in DOMAIN tx[t].items}]
            /\ UNCHANGED <<dbVars, stockLock, productLock, reqs, tasks>>
    /\ UNCHANGED <<soapCalls, config, initStock, fnVars>>

\* ---------------------------------------------------- Commit and failure
\* tx.Commit: the buffered writes become visible together, the locks are released
Commit(t) ==
    /\ tx[t].pc = "commit"
    /\ stock' = [k \in StockKeys |-> IF tx[t].wStock[k].exists THEN tx[t].wStock[k] ELSE stock[k]]
    /\ cost' = [p \in Products |-> IF tx[t].wCost[p].written THEN tx[t].wCost[p].cost ELSE cost[p]]
    /\ movements' = movements \o tx[t].wMov
    /\ invoices' = invoices \cup tx[t].wInv
    /\ details' = details \cup tx[t].wDet
    /\ stockLock' = ReleaseLocks(t, stockLock)
    /\ productLock' = ReleaseLocks(t, productLock)
    /\ IF tx[t].kind = "INVOICE"
       THEN /\ tx' = [tx EXCEPT ![t] = [IdleTx EXCEPT !.pc = "dispatch", !.req = tx[t].req,
                                                      !.kind = "INVOICE"]]
            /\ UNCHANGED reqs
       ELSE /\ tx' = [tx EXCEPT ![t] = IdleTx]
            /\ reqs' = [reqs EXCEPT ![tx[t].req].result = "ok"]
    /\ UNCHANGED <<dianVars, config, initStock, fnVars>>

\* CreateInvoice after the commit: ProcessAsync(invoiceID), then the response
CreateInvoice_Dispatch(t) ==
    /\ tx[t].pc = "dispatch"
    /\ tasks' = IF ShouldDispatch(TRUE) THEN Append(tasks, NewTask(tx[t].req)) ELSE tasks
    /\ tx' = [tx EXCEPT ![t] = IdleTx]
    /\ reqs' = [reqs EXCEPT ![tx[t].req].result = "ok"]
    /\ UNCHANGED <<dbVars, stockLock, productLock, soapCalls, config, initStock, fnVars>>

\* any statement of an open transaction (or its Commit) returns an error, or the
\* request context is cancelled: fn returns the error and the deferred Rollback runs
TxFail(t) ==
    /\ tx[t].pc \notin {"idle", "dispatch"}
    /\ Rollback(t, "DBError")
    /\ UNCHANGED <<soapCalls, config, initStock, fnVars>>

\* ------------------------------------------------------ DIANOrchestrator
AppEnvDev == "dev"
AppEnvTest == "test"
AppEnvProd == "prod"
AppEnvValues == {"dev", "", " DEV ", "test", "prod", "staging"}

\* the marker compared as configured
NormalizeAppEnv_Raw(e) == e

\* strings.ToLower(strings.TrimSpace(appEnv)) on the configured values
NormalizeAppEnv(e) == IF e = " DEV " THEN "dev" ELSE e

\* main.go creates the SOAP client unless the raw marker is "dev" or empty
SubmitterInjected == config.appEnv # "dev" /\ config.appEnv # ""

\* the steps before the SIGNED write that can fail, in their order
FetchSteps == {"fetch-company", "fetch-customer", "fetch-resolution", "fetch-details"}
BuildSteps == {"xml-build", "cert-load", "xml-sign"}

\* what a task keeps of the step that failed: the kind of step
FailureKind(f) == IF f \in FetchSteps THEN "fetch" ELSE IF f \in BuildSteps THEN "build" ELSE f

TerminalStatuses == {DIANStatusExitoso, DIANStatusRechazado, DIANStatusErrorGeneration}

HasRow(id) == \E h \in invoices : h.id = id
RowOf(id) == CHOOSE h \in invoices : h.id = id

\* nullIfEmpty + COALESCE($n, column)
Coalesce(arg, column) == IF arg = "" THEN column ELSE arg

\* InvoiceRepo.Update: xml_signed and dian_status are assigned, the other DIAN
\* columns keep their value when the argument is empty; WHERE id = $1 only
InvoiceRepoUpdate(row, inv) ==
    [row EXCEPT !.cufe = Coalesce(inv.cufe, row.cufe),
                !.uuid = Coalesce(inv.uuid, row.uuid),
                !.xml = inv.xml,
                !.status = inv.st,
                !.qr = Coalesce(inv.qr, row.qr),
                !.track = Coalesce(inv.track, row.track),
                !.errors = Coalesce(inv.errors, row.errors)]

\* the CUFE is a hash of the invoice's own fields and the technical key
Cufe(inv) == "CUFE-" \o ToString(inv.number)

\* CalculateCufeFromInvoice that assigns the CUFE only
CalculateCufeFromInvoice_NoUUID(inv) == [inv EXCEPT !.cufe = Cufe(inv)]

\* CalculateCufeFromInvoice: inv.CUFE = cufe; inv.UUID = cufe
CalculateCufeFromInvoice(inv) == [inv EXCEPT !.cufe = Cufe(inv), !.uuid = Cufe(inv)]

\* the entry check of process left out
EntryCheck_Skipped(status) == TRUE

\* process goes on only when the status read on entry is DRAFT
EntryCheck(status) == status = DIANStatusDraft

\* markError without the return that follows it
AfterMarkError_FallThrough == "zip"

\* every markError before the SIGNED write is followed by return
AfterMarkError == "done"

\* invoiceRepo.Update(inv) by task k: ok tells whether the statement succeeded
RepoUpdate(k, inv, ok) ==
    IF ok
    THEN (invoices \ HeadersOf(invoices, inv.inv)) \cup {InvoiceRepoUpdate(RowOf(inv.inv), inv)}
    ELSE invoices

Written(inv, ok) ==
    IF ok THEN Append(inv.written, [from |-> RowOf(inv.inv).status, to |-> inv.st])
    ELSE inv.written

\* step 0: GetByID and the entry check
ProcessStart(k) ==
    /\ tasks[k].pc = "start"
    /\ IF ~HasRow(tasks[k].inv)
       THEN tasks' = [tasks EXCEPT ![k].pc = "done", ![k].entry = "missing"]
       ELSE LET row == RowOf(tasks[k].inv) IN
            tasks' = [tasks EXCEPT ![k] =
                        [@ EXCEPT !.pc = IF EntryCheck(row.status) THEN "build" ELSE "done",
                                  !.entry = row.status, !.number = row.number,
                                  !.st = row.status, !.cufe = row.cufe, !.uuid = row.uuid,
                                  !.xml = row.xml, !.qr = row.qr, !.track = row.track,
                                  !.errors = row.errors]]
    /\ UNCHANGED <<dbVars, stockLock, productLock, tx, reqs, soapCalls, config, initStock, fnVars>>

\* steps 0-4: fetch company, customer, resolution (which may be absent) and
\* lines, CUFE, XML, certificate, signature, then the Update to SIGNED; a failed
\* step f calls markError (an Update to ERROR_GENERATION) and returns
ProcessBuildSign(k) ==
    /\ tasks[k].pc = "build"
    /\ \E f \in {"none", "cufe"} \cup FetchSteps \cup BuildSteps, resolution \in BOOLEAN,
          ok \in BOOLEAN :
          LET inv == tasks[k]
              withCufe == CalculateCufeFromInvoice(inv)
              failed == [(IF f \in BuildSteps THEN withCufe ELSE inv)
                            EXCEPT !.st = DIANStatusErrorGeneration]
              signed == [withCufe EXCEPT !.qr = "QR-" \o withCufe.cufe,
                                         !.xml = IF resolution THEN "XML+DianExtensions"
                                                 ELSE "XML",
                                         !.st = DIANStatusSigned]
          IN \* Calculate rejects an empty technical key
             /\ config.technicalKey = "" => f \in FetchSteps \cup {"cufe"}
             /\ f # "none" => resolution
             /\ IF f # "none"
                THEN /\ invoices' = RepoUpdate(k, failed, ok)
                     /\ tasks' = [tasks EXCEPT ![k] =
                                    [failed EXCEPT !.pc = AfterMarkError, !.failure = FailureKind(f),
                                                   !.written = Written(failed, ok)]]
                ELSE /\ invoices' = RepoUpdate(k, signed, ok)
                     /\ tasks' = [tasks EXCEPT ![k] =
                                    [signed EXCEPT !.pc = IF ok THEN "zip" ELSE "done",
                                                   !.failure = IF ok THEN "none" ELSE "update",
                                                   !.written = Written(signed, ok)]]
    /\ UNCHANGED <<stock, cost, movements, details, stockLock, productLock, tx, reqs,
                   soapCalls, config, initStock, fnVars>>

\* what SubmitZip meets: the HTTP call or the read of the body fails; a body
\* that is not XML; a SOAP Fault; an envelope without the result of the
\* operation; a result with HasErrors false; a result with HasErrors true
SoapResponses == {"transport-error", "unparseable", "fault", "unexpected", "accepted",
                  "rejected"}

\* SOAPDIANClient.parseResponse: the SubmitResult of a body that was read. Only
\* a result carries the ZipKey and the joined ErrorMessageList; the other
\* bodies give Accepted false and a description in Errors, with a nil error
parseResponse(response) ==
    CASE response = "accepted" -> [accepted |-> TRUE, track |-> "TRACK-ID", errors |-> ""]
      [] response = "rejected" ->
            [accepted |-> FALSE, track |-> "TRACK-ID", errors |-> "rejected"]
      [] OTHER -> [accepted |-> FALSE, track |-> "", errors |-> response]

\* steps 5-8: ZIP, then the switch on the normalized marker and the SOAP call
ProcessSubmit(k) ==
    /\ tasks[k].pc = "zip"
    /\ LET inv == tasks[k]
           appEnv == NormalizeAppEnv(config.appEnv)
           error(step) == [inv EXCEPT !.pc = "persist", !.st = DIANStatusErrorGeneration,
                                      !.failure = step]
       IN \/ /\ tasks' = [tasks EXCEPT ![k] = error("zip")]
             /\ UNCHANGED soapCalls
          \/ /\ appEnv \in {AppEnvDev, ""}
             /\ tasks' = [tasks EXCEPT ![k] =
                            [inv EXCEPT !.pc = "persist", !.st = DIANStatusExitoso,
                                        !.track = "MOCK-TRACK-123"]]
             /\ UNCHANGED soapCalls
          \/ /\ appEnv \in {AppEnvTest, AppEnvProd}
             /\ ~SubmitterInjected
             /\ tasks' = [tasks EXCEPT ![k] = error("soap")]
             /\ UNCHANGED soapCalls
          \/ /\ appEnv \in {AppEnvTest, AppEnvProd}
             /\ SubmitterInjected
             /\ soapCalls' = Append(soapCalls, [inv |-> inv.inv, task |-> k])
             /\ \E response \in SoapResponses :
                   LET result == parseResponse(response) IN
                   tasks' = [tasks EXCEPT ![k] =
                      IF response = "transport-error" THEN error("soap")
                      ELSE [inv EXCEPT !.pc = "persist",
                                       !.st = IF result.accepted THEN DIANStatusExitoso
                                              ELSE DIANStatusRechazado,
                                       !.track = result.track, !.errors = result.errors]]
          \/ /\ appEnv \notin {AppEnvDev, "", AppEnvTest, AppEnvProd}
             /\ tasks' = [tasks EXCEPT ![k] = error("config")]
             /\ UNCHANGED soapCalls
    /\ UNCHANGED <<dbVars, stockLock, productLock, tx, reqs, config, initStock, fnVars>>

\* step 9, or the Update of markError after the SIGNED write
ProcessPersist(k) ==
    /\ tasks[k].pc = "persist"
    /\ \E ok \in BOOLEAN :
          LET inv == tasks[k] IN
          /\ invoices' = RepoUpdate(k, inv, ok)
          /\ tasks' = [tasks EXCEPT ![k] =
                         [inv EXCEPT !.pc = "done",
                                     !.failure = IF ok \/ inv.failure # "none"
                                                 THEN inv.failure ELSE "update",
                                     !.written = Written(inv, ok)]]
    /\ UNCHANGED <<stock, cost, movements, details, stockLock, productLock, tx, reqs,
                   soapCalls, config, initStock, fnVars>>

\* ProcessAsync(invoiceID) called again, by a caller that learnt the id from
\* the response of CreateInvoice
Redispatch ==
    /\ Len(tasks) < MaxTasks
    /\ \E h \in invoices :
          /\ reqs[h.id].result = "ok"
          /\ tasks' = Append(tasks, NewTask(h.id))
    /\ UNCHANGED <<dbVars, stockLock, productLock, tx, reqs, soapCalls, config, initStock, fnVars>>

\* ------------------------------------------------------------------ Init

\* a database seeded by IN movements at 1.00 per unit: every (product,
\* warehouse) has either no row yet or MaxInitStock units
SeedRows == {NoRow, Row(MaxInitStock)}

RECURSIVE SeedMovements(_, _)
SeedMovements(keys, st) ==
    IF keys = {} THEN <<>>
    ELSE LET k == CHOOSE x \in keys : \A y \in keys : x[1] < y[1] \/ (x[1] = y[1] /\ x[2] <= y[2])
         IN (IF st[k].exists
             THEN <<Movement(0, k[1], k[2], "IN", st[k].quantity, 100)>> ELSE <<>>)
            \o SeedMovements(keys \ {k}, st)

InitDB ==
    /\ stock \in [StockKeys -> SeedRows]
    /\ initStock = stock
    /\ movements = SeedMovements(StockKeys, stock)
    /\ cost = [p \in Products |-> IF \E w \in Warehouses : stock[<<p, w>>].exists
                                   THEN 100 ELSE 0]
    /\ invoices = {}
    /\ details = {}
    /\ stockLock = [k \in StockKeys |-> 0]
    /\ productLock = [p \in Products |-> 0]
    /\ tx = [t \in TxIds |-> IdleTx]
    /\ reqs = <<>>
    /\ tasks = <<>>
    /\ soapCalls = <<>>
    /\ sale = <<>>
    /\ http = <<>>
    /\ cufeRun = <<>>
    /\ nitRun = <<>>

\* inventory and invoice intake; the orchestration tasks are dispatched but
\* their steps are left out (they touch only the DIAN columns of invoices)
InitInv ==
    /\ InitDB
    /\ config \in [technicalKey : {"key"}, appEnv : {"dev"}, hasInventory : BOOLEAN,
                    maxRequests : {MaxRequests}, maxItems : {MaxItems}]

NextInv ==
    \E t \in TxIds :
        \/ BeginIN(t) \/ BeginOUT(t) \/ BeginADJUSTMENT(t) \/ BeginTRANSFER(t)
        \/ BeginInvoice(t)
        \/ doIN_GetForUpdate(t) \/ doIN_UpdateCost(t) \/ doIN_Upsert(t)
        \/ doOUT_GetForUpdate(t) \/ doOUT_Upsert(t)
        \/ doTRANSFER_GetForUpdate(t) \/ doTRANSFER_GetDest(t)
        \/ doTRANSFER_UpsertOrigin(t) \/ doTRANSFER_UpsertDest(t)
        \/ doTRANSFER_Movements(t)
        \/ RegisterOUTInTx_GetForUpdate(t) \/ RegisterOUTInTx_Upsert(t)
        \/ CreateInvoice_Persist(t) \/ CreateInvoice_Dispatch(t)
        \/ Commit(t) \/ TxFail(t)

SpecInv == InitInv /\ [][NextInv]_vars

\* invoice intake and DIAN orchestration as the server wires them: one task per
\* committed invoice
InitDian ==
    /\ InitDB
    /\ \A k \in StockKeys : stock[k].exists
    /\ config \in [technicalKey : {"", "key"}, appEnv : AppEnvValues,
                    hasInventory : BOOLEAN, maxRequests : {MaxRequests}, maxItems : {MaxItems}]

InvoiceIntake(t) ==
    \/ BeginInvoice(t)
    \/ RegisterOUTInTx_GetForUpdate(t) \/ RegisterOUTInTx_Upsert(t)
    \/ CreateInvoice_Persist(t) \/ CreateInvoice_Dispatch(t)
    \/ Commit(t) \/ TxFail(t)

Orchestration(k) ==
    \/ ProcessStart(k) \/ ProcessBuildSign(k) \/ ProcessSubmit(k) \/ ProcessPersist(k)

NextDian ==
    \/ \E t \in TxIds : InvoiceIntake(t)
    \/ \E k \in DOMAIN tasks : Orchestration(k)

SpecDian == InitDian /\ [][NextDian]_vars

\* the same with ProcessAsync also called by others on existing invoices
InitRedispatch ==
    /\ InitDB
    /\ \A k \in StockKeys : stock[k].exists
    /\ config \in [technicalKey : {"", "key"}, appEnv : AppEnvValues,
                    hasInventory : BOOLEAN, maxRequests : {MaxDianRequests}, maxItems : {MaxDianItems}]

NextRedispatch == NextDian \/ Redispatch

SpecRedispatch == InitRedispatch /\ [][NextRedispatch]_vars

\* ---------------------------------------------------------------- claims
\* C1: every stock row (product, warehouse) has quantity >= 0 after any
\* interleaving of IN, OUT, ADJUSTMENT, TRANSFER movements and invoice creations
C1_StockNonNegative == \A k \in StockKeys : stock[k].exists => stock[k].quantity >= 0

\* a committed outgoing movement has emptied a stock row
C1_Witness ==
    \E k \in StockKeys :
        /\ stock[k].exists /\ stock[k].quantity = 0
        /\ \E i \in DOMAIN movements :
              movements[i].qty < 0 /\ <<movements[i].p, movements[i].w>> = k

\* ------------------------------------------- concurrent OUTs on one row
\* only OUT requests, no statement fails: what the row lock alone guarantees
InitOUT ==
    /\ InitDB
    /\ config \in [technicalKey : {"key"}, appEnv : {"dev"}, hasInventory : {TRUE},
                    maxRequests : {MaxOutRequests}, maxItems : {MaxItems}]

NextOUT ==
    \E t \in TxIds :
        \/ BeginOUT(t) \/ doOUT_GetForUpdate(t) \/ doOUT_Upsert(t) \/ Commit(t)

SpecOUT == InitOUT /\ [][NextOUT]_vars

OutsOn(k) == {i \in DOMAIN reqs : reqs[i].kind = "OUT" /\ <<reqs[i].p, reqs[i].w>> = k
                                   /\ reqs[i].qty > 0}

RECURSIVE SumQty(_)
SumQty(is) == IF is = {} THEN 0
              ELSE LET i == CHOOSE x \in is : TRUE IN reqs[i].qty + SumQty(is \ {i})

SucceededOuts(k) == {i \in OutsOn(k) : reqs[i].result = "ok"}

\* C2: for concurrent OUTs on an existing stock row, the successful quantities
\* never sum to more than the initial stock, the stock is the initial stock
\* minus that sum and is never negative, and every OUT that did not succeed
\* returned InsufficientStock because the remaining stock was below its quantity
C2_ConcurrentOUT ==
    \A k \in StockKeys :
        initStock[k].exists =>
            /\ SumQty(SucceededOuts(k)) <= initStock[k].quantity
            /\ stock[k].quantity = initStock[k].quantity - SumQty(SucceededOuts(k))
            /\ stock[k].quantity >= 0
            /\ \A i \in OutsOn(k) :
                  /\ reqs[i].result \in {"pending", "ok", "InsufficientStock"}
                  /\ reqs[i].result = "InsufficientStock" => stock[k].quantity < reqs[i].qty

\* two OUTs that each fit the initial stock of the same row: one succeeded and
\* the other one, which had to wait for the row lock, was refused
C2_Witness ==
    \E k \in StockKeys : \E i, j \in OutsOn(k) :
        /\ initStock[k].exists
        /\ reqs[i].result = "ok" /\ reqs[j].result = "InsufficientStock"
        /\ reqs[j].qty <= initStock[k].quantity
        /\ j < i

\* ------------------------------------------------ CreateInvoice atomicity
RECURSIVE SumItems(_, _)
SumItems(items, p) ==
    IF items = <<>> THEN 0
    ELSE (IF Head(items).p = p THEN Head(items).qty ELSE 0) + SumItems(Tail(items), p)


\* the step that commits the transaction of the invoice request of connection t
\* persists the DRAFT header, every line, one OUT movement per line and the
\* stock deductions, all in that one step
InvoiceCommitted(t) ==
    LET id == tx[t].req
        items == tx[t].items
    IN /\ HeadersOf(invoices, id) = {}
       /\ HeadersOf(invoices', id) = {InvoiceRow(id, tx[t].number)}
       /\ DetailsOf(details, id) = {}
       /\ DetailsOf(details', id) =
             {[invoice |-> id, line |-> i, p |-> items[i].p, qty |-> items[i].qty] :
                 i \in DOMAIN items}
       /\ MovementsOf(movements, id) = <<>>
       /\ IF tx[t].hasInventory
          THEN /\ MovementsOf(movements', id) =
                     [i \in DOMAIN items |->
                         Movement(id, items[i].p, tx[t].w, "OUT", 0 - items[i].qty, items[i].cost)]
               /\ \A k \in StockKeys :
                     stock'[k].quantity =
                        stock[k].quantity
                        - (IF k[2] = tx[t].w THEN SumItems(items, k[1]) ELSE 0)
          ELSE /\ MovementsOf(movements', id) = <<>>
               /\ stock' = stock

\* any other step of the invoice request leaves the five tables as they are,
\* and once the request has failed nothing of it is in them
InvoiceNotPersisted(t) ==
    LET id == tx[t].req
    IN /\ UNCHANGED <<stock, cost, movements, invoices, details>>
       /\ HeadersOf(invoices', id) = {}
       /\ DetailsOf(details', id) = {}
       /\ MovementsOf(movements', id) = <<>>

\* C3: CreateInvoice is all-or-nothing: a step of an invoice request's
\* transaction either is its commit, which persists the DRAFT header, all lines,
\* all OUT movements and all stock deductions together, or (any other step,
\* a failure and its rollback included) changes no stock row, no movement, no
\* header and no line
C3_CreateInvoiceAtomic ==
    [][\A t \in TxIds :
          (tx[t].kind = "INVOICE" /\ tx[t].pc # "dispatch" /\ tx'[t] # tx[t]) =>
             IF tx[t].pc = "commit" /\ tx'[t].pc = "dispatch"
             THEN InvoiceCommitted(t)
             ELSE InvoiceNotPersisted(t)]_vars

\* the first request was an invoice whose first line had passed the stock check
\* and deducted stock in its transaction when the second line was refused, and
\* the second request was an invoice that committed with its stock deductions
C3_Witness ==
    /\ config.hasInventory
    /\ Len(reqs) = 2
    /\ reqs[1].kind = "INVOICE" /\ reqs[1].result = "InsufficientStock"
    /\ Len(reqs[1].items) = 2
    /\ reqs[1].items[1][2] <= initStock[<<reqs[1].items[1][1], reqs[1].w>>].quantity
    /\ reqs[2].kind = "INVOICE" /\ reqs[2].result = "ok"
    /\ HeadersOf(invoices, 1) = {} /\ DetailsOf(details, 1) = {}
    /\ MovementsOf(movements, 1) = <<>>
    /\ HeadersOf(invoices, 2) # {} /\ MovementsOf(movements, 2) # <<>>
    /\ \E k \in StockKeys : stock[k].quantity < initStock[k].quantity

\* ------------------------------------------------- orchestration claims
FailedResults == {"InvalidInput", "InsufficientStock", "Duplicate", "DBError"}

\* C4: an orchestration task exists only for an invoice request whose
\* transaction committed (never for a failed or rolled-back one); from the
\* moment it is started the invoice row is visible, and the status it finds
\* when it starts is DRAFT
C4_TaskAfterCommit ==
    \A k \in DOMAIN tasks :
        LET id == tasks[k].inv IN
        /\ reqs[id].kind = "INVOICE"
        /\ reqs[id].result \notin FailedResults
        /\ HasRow(id)
        /\ tasks[k].pc = "start" => RowOf(id).status = DIANStatusDraft
        /\ tasks[k].entry \in {"none", DIANStatusDraft}

\* one invoice request failed and has no task; the other one committed and its
\* task has read the DRAFT row
C4_Witness ==
    /\ \E i \in DOMAIN reqs :
          /\ reqs[i].kind = "INVOICE" /\ reqs[i].result \in FailedResults \ {"InvalidInput"}
          /\ \A k \in DOMAIN tasks : tasks[k].inv # i
    /\ \E k \in DOMAIN tasks :
          /\ tasks[k].entry = DIANStatusDraft
          /\ reqs[tasks[k].inv].result = "ok"

\* C5: a task that finds a status other than DRAFT when it starts takes no
\* step that writes the invoices table or calls the SOAP submitter: its only
\* step is the entry check, after which it is done
C5_NonDraftIsNoop ==
    [][\A k \in DOMAIN tasks :
          (/\ tasks'[k] # tasks[k]
           /\ IF tasks[k].pc = "start"
              THEN HasRow(tasks[k].inv) /\ RowOf(tasks[k].inv).status # DIANStatusDraft
              ELSE tasks[k].entry # DIANStatusDraft)
          => /\ UNCHANGED <<invoices, soapCalls>>
             /\ tasks'[k].pc = "done"
             /\ tasks'[k].written = <<>>]_vars

\* a re-dispatched task found the invoice already processed and is done
C5_Witness ==
    \E k \in DOMAIN tasks :
        /\ tasks[k].pc = "done"
        /\ tasks[k].entry \in TerminalStatuses \cup {DIANStatusSigned}
        /\ tasks[k].written = <<>>
        /\ RowOf(tasks[k].inv).status = tasks[k].entry

\* C6: of the tasks that run on one invoice at most one writes to it (the
\* others bail out), so the invoice is signed at most once and submitted to
\* DIAN at most once
C6_FirstSignerWins ==
    \A h \in invoices :
        /\ Cardinality({k \in DOMAIN tasks :
                           tasks[k].inv = h.id /\ tasks[k].written # <<>>}) <= 1
        /\ Cardinality({i \in DOMAIN soapCalls : soapCalls[i].inv = h.id}) <= 1

\* the edges of the state machine as claimed, and with the edge the steps after
\* the SIGNED write take on failure
ClaimedEdges ==
    {<<DIANStatusDraft, DIANStatusSigned>>, <<DIANStatusSigned, DIANStatusExitoso>>,
     <<DIANStatusSigned, DIANStatusRechazado>>, <<DIANStatusDraft, DIANStatusExitoso>>,
     <<DIANStatusDraft, DIANStatusErrorGeneration>>}
ActualEdges == ClaimedEdges \cup {<<DIANStatusSigned, DIANStatusErrorGeneration>>}

\* every change of a persisted status in this step is an edge of E, and no task
\* has written the same status twice
StatusChangesWithin(E) ==
    /\ \A h \in invoices : \A g \in invoices' :
          (g.id = h.id /\ g.status # h.status) => <<h.status, g.status>> \in E
    /\ \A k \in DOMAIN tasks' :
          \A i, j \in DOMAIN tasks'[k].written :
             i # j => tasks'[k].written[i].to # tasks'[k].written[j].to

\* C7 as stated: the persisted status changes only along DRAFT->SIGNED,
\* SIGNED->ACCEPTED, SIGNED->REJECTED, DRAFT->ACCEPTED, DRAFT->GENERATION_ERROR,
\* each written at most once per orchestration run
C7_ClaimedEdgesOnly == [][StatusChangesWithin(ClaimedEdges)]_vars

\* C7 amended: with one orchestration run per invoice, the persisted status
\* changes only along the claimed edges or SIGNED->GENERATION_ERROR, each
\* written at most once per run
C7_StatusEdges == [][StatusChangesWithin(ActualEdges)]_vars

\* a run persisted SIGNED and then GENERATION_ERROR
C7_Witness ==
    \E k \in DOMAIN tasks :
        /\ Len(tasks[k].written) = 2
        /\ tasks[k].written[1] = [from |-> DIANStatusDraft, to |-> DIANStatusSigned]
        /\ tasks[k].written[2] = [from |-> DIANStatusSigned, to |-> DIANStatusErrorGeneration]
        /\ RowOf(tasks[k].inv).status = DIANStatusErrorGeneration

\* C8: once the persisted status of an invoice is ACCEPTED, REJECTED or
\* GENERATION_ERROR no step of any task changes it
C8_TerminalIsFinal ==
    [][\A h \in invoices :
          h.status \in TerminalStatuses =>
             \E g \in invoices' : g.id = h.id /\ g.status = h.status]_vars

\* C9: an invoice whose persisted status is SIGNED, ACCEPTED or REJECTED has a
\* non-empty CUFE, a UUID equal to the CUFE and a non-empty signed XML
C9_SignedHasCufe ==
    \A h \in invoices :
        h.status \in {DIANStatusSigned, DIANStatusExitoso, DIANStatusRechazado} =>
            /\ h.cufe # ""
            /\ h.uuid = h.cufe
            /\ h.xml # ""

\* DIAN rejected a signed invoice
C9_Witness ==
    \E h \in invoices :
        /\ h.status = DIANStatusRechazado
        /\ h.cufe # "" /\ h.errors # ""
        /\ \E i \in DOMAIN soapCalls : soapCalls[i].inv = h.id

\* the markers that mean dev once case and surrounding blanks are dropped
DevMarkers == {"dev", " DEV "}

\* the failures of a step of the run: a repository read or write, the CUFE, the
\* XML, the certificate, the signature, the ZIP, the SOAP call
StepFailures == {"fetch", "cufe", "build", "zip", "soap", "update"}

\* the run of task k left the invoice ACCEPTED with the mock tracking id and a
\* CUFE, went through SIGNED, and the submitter was never called for it
DevOutcome(k) ==
    LET row == RowOf(tasks[k].inv) IN
    /\ row.status = DIANStatusExitoso
    /\ row.track = "MOCK-TRACK-123"
    /\ row.cufe # ""
    /\ tasks[k].written = <<[from |-> DIANStatusDraft, to |-> DIANStatusSigned],
                            [from |-> DIANStatusSigned, to |-> DIANStatusExitoso]>>
    /\ \A i \in DOMAIN soapCalls : soapCalls[i].inv # tasks[k].inv

AllUpdatesOk(k) ==
    /\ tasks[k].failure # "update"
    /\ Len(tasks[k].written) = IF tasks[k].failure \in {"fetch", "cufe", "build"} THEN 1 ELSE 2

\* C11: when the app-environment marker is not one of dev, test, prod, a run
\* that started on a DRAFT invoice and whose Updates succeeded leaves the
\* invoice in GENERATION_ERROR, and no submission to DIAN is made for it
C11_UnknownMarkerIsError ==
    \A k \in DOMAIN tasks :
        (/\ NormalizeAppEnv(config.appEnv) \notin {AppEnvDev, AppEnvTest, AppEnvProd}
         /\ tasks[k].pc = "done" /\ tasks[k].entry = DIANStatusDraft
         /\ AllUpdatesOk(k))
        => /\ RowOf(tasks[k].inv).status = DIANStatusErrorGeneration
           /\ \A i \in DOMAIN soapCalls : soapCalls[i].inv # tasks[k].inv

\* C12: no Update erases a stored value: a DIAN column of an invoice (CUFE,
\* UUID, signed XML, QR, tracking id, errors) that holds a value still holds
\* one after any step of any orchestration task
C12_UpdateNeverErases ==
    [][\A h \in invoices : \A g \in invoices' :
          g.id = h.id =>
             /\ h.cufe # "" => g.cufe # ""
             /\ h.uuid # "" => g.uuid # ""
             /\ h.xml # "" => g.xml # ""
             /\ h.qr # "" => g.qr # ""
             /\ h.track # "" => g.track # ""
             /\ h.errors # "" => g.errors # ""]_vars

\* ------------------------------------------------------------ cost claims
\* the weighted average of the IN history of product p rounded to 4 decimals,
\* in hundredths of a cent
AverageIN4(p) == RoundDiv(SumCostIN(movements, p) * 100, SumQtyIN(movements, p))

HasIN(p) == \E i \in DOMAIN movements : movements[i].type = "IN" /\ movements[i].p = p

\* C13: for every product with at least one committed IN movement, the stored
\* cost equals the sum of total_cost of its IN movements divided by the sum of
\* their quantities, rounded to 4 decimals
C13_CostIsAverageOfINs ==
    \A p \in Products :
        (HasIN(p) /\ SumQtyIN(movements, p) > 0) => cost[p] * 100 = AverageIN4(p)

\* ------------------------------------------------ billing of one client
\* CreateInvoice run by one client of company C against the tables of two
\* tenants: the validations before the transaction, the transaction, and the
\* rows the tables hold afterwards. Decimals are scaled integers: quantities and
\* rates in 1/100, money in cents. The table stock is keyed by SaleKeys here.
MaxSaleCalls == 1
MaxSaleItems == 2
SaleStock == 300

CallerCompany == "C"
OtherCompany == "D"

\* products: price DECIMAL(15,2), tax_rate DECIMAL(5,2) CHECK (tax_rate IN (0, 5, 19))
ProductTable ==
    { [id |-> "p1", company |-> CallerCompany, price |-> 1, cost |-> 1, taxRate |-> 1900],
      [id |-> "p2", company |-> CallerCompany, price |-> 250, cost |-> 100, taxRate |-> 500],
      [id |-> "q1", company |-> OtherCompany, price |-> 100, cost |-> 50, taxRate |-> 0] }
CustomerTable ==
    { [id |-> "c1", company |-> CallerCompany], [id |-> "d1", company |-> OtherCompany] }
WarehouseTable ==
    { [id |-> "w1", company |-> CallerCompany], [id |-> "v1", company |-> OtherCompany] }

SaleKeys == {<<r.id, w.id>> : r \in ProductTable, w \in WarehouseTable}

\* what a request may carry: known, foreign, unknown and empty identifiers
SaleItems ==
    [product : {"p1", "p2", "q1", "zz", ""}, quantity : {0, 50, 225}, unitPrice : {0 - 1, 0, 1}]
SaleRequests ==
    [customer : {"c1", "d1", "zz", ""}, warehouse : {"w1", "v1", ""},
     items : UNION {[1..n -> SaleItems] : n \in 1..MaxSaleItems}]

\* repository GetByID: the row, or none
Lookup(table, id) == {r \in table : r.id = id}
TheRow(table, id) == CHOOSE r \in table : r.id = id

\* the ownership test left out
OwnedBy_Anyone(row, company) == TRUE

\* customer.CompanyID != companyID, product.CompanyID != companyID
OwnedBy(row, company) == row.company = company

\* the loop over in.Items before the transaction, from item i on
RECURSIVE ValidateItems(_, _)
ValidateItems(items, i) ==
    IF i > Len(items) THEN "ok"
    ELSE IF items[i].product = "" \/ ~(items[i].quantity > 0) THEN "InvalidInput"
    ELSE IF Lookup(ProductTable, items[i].product) = {} THEN "NotFound"
    ELSE IF ~OwnedBy(TheRow(ProductTable, items[i].product), CallerCompany) THEN "Forbidden"
    ELSE IF items[i].unitPrice < 0 THEN "InvalidInput"
    ELSE ValidateItems(items, i + 1)

\* the read-only validations of CreateInvoice, in the order of the code
ValidateSale(r, hasInventory) ==
    IF r.customer = "" \/ Len(r.items) = 0 THEN "InvalidInput"
    ELSE IF Lookup(CustomerTable, r.customer) = {} THEN "NotFound"
    ELSE IF ~OwnedBy(TheRow(CustomerTable, r.customer), CallerCompany) THEN "Forbidden"
    ELSE IF hasInventory /\ r.warehouse = "" THEN "InvalidInput"
    ELSE IF hasInventory /\ (\/ Lookup(WarehouseTable, r.warehouse) = {}
                             \/ TheRow(WarehouseTable, r.warehouse).company # CallerCompany)
         THEN "NotFound"
    ELSE ValidateItems(r.items, 1)

\* a zero unit price is replaced by the product's price
EffectivePrice(item) ==
    IF item.unitPrice = 0 THEN TheRow(ProductTable, item.product).price ELSE item.unitPrice

\* toRate: a rate above 1 is a percentage, anything else already a fraction
toRate(rate) == IF rate > 100 THEN rate \div 100 ELSE rate

\* subtotal := item.Quantity.Mul(item.UnitPrice), in 1/10^4
LineSubtotal(item) == item.quantity * EffectivePrice(item)

\* subtotal.Mul(toRate(product.TaxRate)), in 1/10^6
LineTax(item) == LineSubtotal(item) * toRate(TheRow(ProductTable, item.product).taxRate)

RECURSIVE NetTotal(_, _)
NetTotal(items, i) ==
    IF i > Len(items) THEN 0 ELSE LineSubtotal(items[i]) + NetTotal(items, i + 1)

RECURSIVE TaxTotal(_, _)
TaxTotal(items, i) ==
    IF i > Len(items) THEN 0 ELSE LineTax(items[i]) + TaxTotal(items, i + 1)

\* grandTotal := netTotal.Add(taxTotal), in 1/10^6
GrandTotal(items) == NetTotal(items, 1) * 100 + TaxTotal(items, 1)

\* a value in 1/scale stored in a DECIMAL(15,2) column: cents
Decimal2(v, scale) == RoundDiv(v, scale \div 100)

\* the header as the table invoices keeps it
SaleInvoice(id, r) ==
    [id |-> id, company |-> CallerCompany, customer |-> r.customer,
     status |-> DIANStatusDraft,
     net_total |-> Decimal2(NetTotal(r.items, 1), 10000),
     tax_total |-> Decimal2(TaxTotal(r.items, 1), 1000000),
     grand_total |-> Decimal2(GrandTotal(r.items), 1000000)]

\* the lines as the table invoice_details keeps them
SaleDetails(id, r) ==
    { [invoice |-> id, line |-> i, product |-> r.items[i].product,
       quantity |-> r.items[i].quantity,
       unit_price |-> EffectivePrice(r.items[i]),
       tax_rate |-> toRate(TheRow(ProductTable, r.items[i].product).taxRate),
       subtotal |-> Decimal2(LineSubtotal(r.items[i]), 10000)] : i \in DOMAIN r.items }

\* RegisterOUTInTx for the items from i on: the stock and the movements after
\* them, or the first item the warehouse cannot serve
RECURSIVE RegisterOUTs(_, _, _, _, _)
RegisterOUTs(id, r, i, st, movs) ==
    IF i > Len(r.items) THEN [ok |-> TRUE, stock |-> st, movements |-> movs]
    ELSE LET item == r.items[i]
             k == <<item.product, r.warehouse>>
             newQty == st[k].quantity - item.quantity
         IN IF st[k].quantity < item.quantity \/ ~StockCheck(newQty)
            THEN [ok |-> FALSE, stock |-> st, movements |-> movs]
            ELSE RegisterOUTs(id, r, i + 1, [st EXCEPT ![k] = Row(newQty)],
                     Append(movs, Movement(id, item.product, r.warehouse, "OUT",
                                           0 - item.quantity,
                                           TheRow(ProductTable, item.product).cost)))

\* CreateInvoice from the request to the response
CreateInvoiceCall ==
    /\ Len(sale) < MaxSaleCalls
    /\ \E r \in SaleRequests :
         LET id == Len(sale) + 1
             v == ValidateSale(r, config.hasInventory)
             out == IF config.hasInventory /\ v = "ok"
                    THEN RegisterOUTs(id, r, 1, stock, movements)
                    ELSE [ok |-> TRUE, stock |-> stock, movements |-> movements]
             result == IF v # "ok" THEN v
                       ELSE IF ~out.ok THEN "InsufficientStock" ELSE "ok"
         IN /\ sale' = Append(sale, [request |-> r, id |-> id, result |-> result])
            /\ IF result = "ok"
               THEN /\ stock' = out.stock
                    /\ movements' = out.movements
                    /\ invoices' = invoices \cup {SaleInvoice(id, r)}
                    /\ details' = details \cup SaleDetails(id, r)
               ELSE UNCHANGED <<stock, movements, invoices, details>>
    /\ UNCHANGED <<cost, stockLock, productLock, tx, reqs, tasks, soapCalls, config,
                   initStock, http, cufeRun, nitRun>>

InitSale ==
    /\ stock = [k \in SaleKeys |->
                  IF TheRow(ProductTable, k[1]).company = TheRow(WarehouseTable, k[2]).company
                  THEN Row(SaleStock) ELSE NoRow]
    /\ initStock = stock
    /\ movements = <<>>
    /\ cost = [p \in Products |-> 0]
    /\ invoices = {}
    /\ details = {}
    /\ stockLock = [k \in StockKeys |-> 0]
    /\ productLock = [p \in Products |-> 0]
    /\ tx = [t \in TxIds |-> IdleTx]
    /\ reqs = <<>>
    /\ tasks = <<>>
    /\ soapCalls = <<>>
    /\ config \in [technicalKey : {""}, appEnv : {"dev"}, hasInventory : BOOLEAN,
                    maxRequests : {MaxSaleCalls}, maxItems : {MaxSaleItems}]
    /\ sale = <<>>
    /\ http = <<>>
    /\ cufeRun = <<>>
    /\ nitRun = <<>>

SpecSale == InitSale /\ [][CreateInvoiceCall]_vars

RECURSIVE SumSubtotals(_)
SumSubtotals(ds) ==
    IF ds = {} THEN 0
    ELSE LET d == CHOOSE x \in ds : TRUE IN d.subtotal + SumSubtotals(ds \ {d})

\* sum over the stored lines of quantity x unit price x tax rate, in 1/10^6
RECURSIVE SumLineTax(_)
SumLineTax(ds) ==
    IF ds = {} THEN 0
    ELSE LET d == CHOOSE x \in ds : TRUE
         IN d.quantity * d.unit_price * d.tax_rate + SumLineTax(ds \ {d})

\* C14: every persisted invoice has net_total equal to the sum of its stored
\* line subtotals, tax_total equal to the sum of line subtotal times line tax
\* rate rounded to 2 decimals, and grand_total equal to net_total plus
\* tax_total; a line's subtotal is quantity times unit price (as the 2-decimal
\* column holds it), and its rate is a fraction between 0 and 1
C14_TotalsConsistent ==
    \A h \in invoices :
        LET ls == DetailsOf(details, h.id)
        IN /\ h.net_total = SumSubtotals(ls)
           /\ h.tax_total = RoundDiv(SumLineTax(ls), 10000)
           /\ h.grand_total = h.net_total + h.tax_total
           /\ \A d \in ls : /\ d.subtotal = RoundDiv(d.quantity * d.unit_price, 100)
                            /\ d.tax_rate >= 0 /\ d.tax_rate <= 100

\* the request names a customer or a product that another company owns
ForeignCustomer(r) ==
    \E c \in Lookup(CustomerTable, r.customer) : c.company # CallerCompany
ForeignProduct(r) ==
    \E i \in DOMAIN r.items :
        \E row \in Lookup(ProductTable, r.items[i].product) : row.company # CallerCompany
NamesForeign(r) == ForeignCustomer(r) \/ ForeignProduct(r)

\* nothing but the ownership of a customer or product is wrong with the request
OtherwiseValid(r) ==
    /\ Lookup(CustomerTable, r.customer) # {}
    /\ config.hasInventory =>
          \E w \in Lookup(WarehouseTable, r.warehouse) : w.company = CallerCompany
    /\ \A i \in DOMAIN r.items :
          /\ Lookup(ProductTable, r.items[i].product) # {}
          /\ r.items[i].quantity > 0
          /\ r.items[i].unitPrice >= 0

\* nothing of call c is in the tables
LeftNoRows(c) ==
    /\ HeadersOf(invoices, c.id) = {}
    /\ DetailsOf(details, c.id) = {}
    /\ MovementsOf(movements, c.id) = <<>>

\* the step is a call of CreateInvoice that names something foreign
ForeignCall == Len(sale') = Len(sale) + 1 /\ NamesForeign(sale'[Len(sale')].request)

\* the step changes no table
PersistsNothing == UNCHANGED <<stock, cost, movements, invoices, details>>

InvoiceHandlerStatus(result) ==
    CASE result = "ok" -> 201
      [] result = "InvalidInput" -> 400
      [] result = "NotFound" -> 404
      [] result = "Forbidden" -> 403
      [] result = "InsufficientStock" -> 409
      [] OTHER -> 500

\* C16: an invoice whose (company, prefix, number) is that of an existing
\* invoice fails as a duplicate, answered with HTTP 409; its transaction is
\* rolled back (nothing of it is in the tables) and no two invoices ever share
\* a number
C16_DuplicateIs409 ==
    /\ \A i \in DOMAIN reqs :
          (reqs[i].kind = "INVOICE" /\ reqs[i].result = "Duplicate")
             => /\ InvoiceHandlerStatus(reqs[i].result) = 409
                /\ HeadersOf(invoices, i) = {}
                /\ DetailsOf(details, i) = {}
                /\ MovementsOf(movements, i) = <<>>
    /\ \A h \in invoices : \A g \in invoices : h.number = g.number => h.id = g.id

\* the database right after the migrations: no stock, no invoice, nothing in flight
InitEmpty ==
    /\ stock = [k \in StockKeys |-> NoRow]
    /\ initStock = stock
    /\ movements = <<>>
    /\ cost = [p \in Products |-> 0]
    /\ invoices = {}
    /\ details = {}
    /\ stockLock = [k \in StockKeys |-> 0]
    /\ productLock = [p \in Products |-> 0]
    /\ tx = [t \in TxIds |-> IdleTx]
    /\ reqs = <<>>
    /\ tasks = <<>>
    /\ soapCalls = <<>>
    /\ sale = <<>>
    /\ http = <<>>
    /\ cufeRun = <<>>
    /\ nitRun = <<>>
    /\ config = [technicalKey |-> "key", appEnv |-> "dev", hasInventory |-> TRUE,
                 maxRequests |-> MaxRequests, maxItems |-> MaxItems]

\* ------------------------------------------------ middleware chain
\* One request through AuthMiddleware, RequireModule, RequireRole and the
\* handler of a protected route.
MaxHttpRequests == 1
MaxClock == 1

RoleAdmin == "admin"
RoleBodeguero == "bodeguero"
RoleVendedor == "vendedor"
ModuleInventory == "inventory"
ModuleBilling == "billing"

RouteInvoices == "POST /api/invoices"
RouteMovements == "POST /api/inventory/movements"
Routes == {RouteInvoices, RouteMovements}

\* RequireModule(...) of the group the route is in
RouteModule(route) == IF route = RouteInvoices THEN ModuleBilling ELSE ModuleInventory

\* RequireRole(...) of the route
RouteRoles(route) ==
    IF route = RouteInvoices THEN {RoleAdmin, RoleVendedor} ELSE {RoleAdmin, RoleBodeguero}

\* what the claims of a token may carry
Tokens ==
    [kind : {"valid", "malformed", "expired", "wrong-signature", "wrong-alg"},
     user : {"u1"}, company : {"C", ""},
     role : {RoleAdmin, RoleBodeguero, RoleVendedor, "", "Admin", "guest"}]
BlankToken == [kind |-> "blank", user |-> "", company |-> "", role |-> ""]

\* the Authorization header as strings.SplitN(header, " ", 2) sees it: no
\* header, a single word, or a scheme and the rest
AuthHeaders ==
    {<<>>, <<"Bearer">>}
      \cup {<<sch, BlankToken>> : sch \in {"Bearer"}}
      \cup {<<sch, tok>> : sch \in {"Bearer", "bearer", "Basic"}, tok \in Tokens}

\* strings.EqualFold(parts[0], "Bearer")
EqualFoldBearer(sch) == sch \in {"Bearer", "bearer", "BEARER"}

\* jwt.Parse: the claims of a well-formed, unexpired token signed with the
\* secret by an HMAC method; an error for any other token
Parse(tok) ==
    IF tok.kind = "valid"
    THEN [err |-> FALSE, user |-> tok.user, company |-> tok.company, role |-> tok.role]
    ELSE [err |-> TRUE, user |-> "", company |-> "", role |-> ""]

\* the row of company_modules for (company, module), if any
\* expires_at IS NULL
NoExpiry == 0 - 1
NoModuleRow == [present |-> FALSE, is_active |-> FALSE, expires_at |-> NoExpiry]
ModuleRows ==
    {NoModuleRow}
      \cup [present : {TRUE}, is_active : BOOLEAN, expires_at : {NoExpiry} \cup (0..MaxClock)]

\* the expiry date is not looked at
HasActiveModule_IgnoreExpiry(row, now) == row.present /\ row.is_active

\* CompanyRepo.HasActiveModule: is_active AND (expires_at IS NULL OR expires_at > now())
HasActiveModule(row, now) ==
    /\ row.present
    /\ row.is_active
    /\ (row.expires_at = NoExpiry \/ row.expires_at > now)

\* every role is let through
RoleAllowed_Any(role, allowed) == TRUE

\* _, ok := allowed[role]
RoleAllowed(role, allowed) == role \in allowed

Response(status, code, trace) == [status |-> status, code |-> code, trace |-> trace]

\* the handler of the route: 401 without company or user, else the use case
HandlerStep(route, locals, trace) ==
    IF locals.company = "" \/ locals.user = ""
    THEN Response(401, "UNAUTHORIZED", Append(trace, "handler"))
    ELSE Response(201, "", trace \o <<"handler", "usecase">>)

\* RequireRole(allowed...)
RequireRole(route, locals, trace) ==
    LET tr == Append(trace, "RequireRole")
    IN IF locals.role = "" THEN Response(401, "MISSING_ROLE", tr)
       ELSE IF ~RoleAllowed(locals.role, RouteRoles(route)) THEN Response(403, "FORBIDDEN", tr)
       ELSE HandlerStep(route, locals, tr)

\* RequireModule(module, checker)
RequireModule(route, locals, row, now, dbError, trace) ==
    LET tr == Append(trace, "RequireModule")
    IN IF locals.company = "" THEN Response(401, "UNAUTHORIZED", tr)
       ELSE IF dbError THEN Response(503, "MODULE_CHECK_FAILED", tr)
       ELSE IF ~HasActiveModule(row, now) THEN Response(403, "MODULE_DISABLED", tr)
       ELSE RequireRole(route, locals, tr)

\* AuthMiddleware(jwtSecret), then the rest of the chain
AuthMiddleware(route, header, row, now, dbError) ==
    LET tr == <<"AuthMiddleware">>
    IN IF header = <<>> THEN Response(401, "MISSING_TOKEN", tr)
       ELSE IF Len(header) # 2 \/ ~EqualFoldBearer(header[1])
            THEN Response(401, "INVALID_TOKEN", tr)
       ELSE IF header[2] = BlankToken THEN Response(401, "MISSING_TOKEN", tr)
       ELSE IF Parse(header[2]).err THEN Response(401, "INVALID_TOKEN", tr)
       ELSE RequireModule(route, Parse(header[2]), row, now, dbError, tr)

\* one request served; the row of company_modules for the company and the
\* module of the route, the clock and the health of the database are what the
\* request finds
Serve ==
    /\ Len(http) < MaxHttpRequests
    /\ \E route \in Routes, header \in AuthHeaders, row \in ModuleRows,
          now \in 0..MaxClock, dbError \in BOOLEAN :
         http' = Append(http, [route |-> route, module |-> RouteModule(route),
                               header |-> header, row |-> row,
                               now |-> now, dbError |-> dbError,
                               response |-> AuthMiddleware(route, header, row, now, dbError)])
    /\ UNCHANGED <<dbVars, stockLock, productLock, tx, reqs, tasks, soapCalls, config,
                   initStock, sale, cufeRun, nitRun>>

SpecHttp == InitEmpty /\ [][Serve]_vars

\* the steps a response went through
Reached(q, step) == \E i \in DOMAIN q.response.trace : q.response.trace[i] = step

\* the request carries a token that jwt.Parse accepts
ValidJWT(q) ==
    /\ Len(q.header) = 2
    /\ EqualFoldBearer(q.header[1])
    /\ q.header[2].kind = "valid"

\* C17: RequireRole lets a request through to the handler if and only if the
\* role of the validated token is one of the allowed roles; another non-empty
\* role gets 403 FORBIDDEN, an empty role 401 MISSING_ROLE, and a missing,
\* malformed, expired or wrongly signed token gets 401 from AuthMiddleware
\* before the role is examined
C17_RequireRole ==
    \A i \in DOMAIN http :
        LET q == http[i]
        IN /\ Reached(q, "RequireRole") =>
                LET role == q.header[2].role
                IN /\ ValidJWT(q)
                   /\ Reached(q, "handler") <=> role \in RouteRoles(q.route)
                   /\ (role # "" /\ role \notin RouteRoles(q.route))
                         => q.response.status = 403 /\ q.response.code = "FORBIDDEN"
                   /\ role = ""
                         => q.response.status = 401 /\ q.response.code = "MISSING_ROLE"
           /\ ~ValidJWT(q) =>
                /\ q.response.status = 401
                /\ q.response.trace = <<"AuthMiddleware">>

C17_Witness ==
    \E i \in DOMAIN http :
        /\ Reached(http[i], "RequireRole")
        /\ http[i].route = RouteInvoices
        /\ http[i].header[2].role = RoleBodeguero
        /\ http[i].response.code = "FORBIDDEN"

\* the row the request finds is not an active, unexpired module
LacksModule(q) ==
    ~(/\ q.row.present /\ q.row.is_active
      /\ (q.row.expires_at = NoExpiry \/ q.row.expires_at > q.now))

\* the use case of a route runs only behind a valid JWT, the active and
\* unexpired module of the route and one of its roles
UseCaseGated(q) ==
    Reached(q, "usecase") =>
       /\ ValidJWT(q)
       /\ ~LacksModule(q)
       /\ q.route = RouteInvoices => q.header[2].role \in {RoleAdmin, RoleVendedor}
       /\ q.route = RouteMovements => q.header[2].role \in {RoleAdmin, RoleBodeguero}

\* C18 as stated: the CreateInvoice use case runs only for a request with a
\* valid JWT whose company has the billing module active and unexpired and whose
\* role is admin or salesperson; the movement use case likewise with the
\* inventory module and admin or warehouse operator; a request whose company
\* lacks the module gets 403 and reaches neither the role check nor the handler
C18_LacksModuleIs403 ==
    \A i \in DOMAIN http :
        LET q == http[i]
        IN /\ UseCaseGated(q)
           /\ (ValidJWT(q) /\ q.header[2].company # "" /\ LacksModule(q))
                => /\ q.response.status = 403
                   /\ ~Reached(q, "RequireRole")
                   /\ ~Reached(q, "handler")

\* C18: the same gating of the two use cases; a request whose company lacks
\* the module reaches neither the role check nor the handler, and is answered
\* 403 when the module lookup succeeds and 503 when the lookup itself fails
C18_RouteGating ==
    \A i \in DOMAIN http :
        LET q == http[i]
        IN /\ UseCaseGated(q)
           /\ (ValidJWT(q) /\ q.header[2].company # "" /\ LacksModule(q))
                => /\ q.response.status = IF q.dbError THEN 503 ELSE 403
                   /\ ~Reached(q, "RequireRole")
                   /\ ~Reached(q, "handler")

C18_Witness ==
    \E i \in DOMAIN http :
        /\ ValidJWT(http[i])
        /\ http[i].route = RouteInvoices
        /\ http[i].header[2].role = RoleAdmin
        /\ http[i].row.present /\ http[i].row.is_active
        /\ http[i].row.expires_at = http[i].now
        /\ http[i].response.code = "MODULE_DISABLED"

\* ------------------------------------------------ CUFE
\* CufeCalculatorService.Calculate on bounded inputs. A text is a sequence of
\* one-character strings (the date, which Calculate does not look into, is one
\* piece); an amount is in 1/1000.
MaxCufeCalls == 2

DigitChars == {"0", "1", "2", "3", "4", "5", "6", "7", "8", "9"}

CodImpIVA == <<"0", "1">>
CodImpImpoconsumo == <<"0", "4">>
CodImpICA == <<"0", "3">>

CufeParams ==
    [NumFac : {<<"F", "1">>, <<"F", " ", "1">>, <<"F", "2">>},
     FecFac : {<<"2024-01-01">>, <<"2024-01-02">>},
     ValFac : {1000, 1004, 1010},
     ValImp_01 : {190, 200},
     ValImp_04 : {0},
     ValImp_03 : {0},
     ValPag : {1190, 1200},
     NitOfe : {<<"9", "0">>, <<"9", "-", "0">>, <<"9", "1">>, <<"-">>},
     DocAdq : {<<"7">>, <<"8">>},
     ClTec : {<<"k", "1">>, <<"k", "2">>},
     TipoAmb : {<<>>, <<"1">>, <<"2">>}]

CufeFields ==
    {"NumFac", "FecFac", "ValFac", "ValImp_01", "ValPag", "NitOfe", "DocAdq", "ClTec", "TipoAmb"}

\* regexp \s+ replaced by "" after strings.TrimSpace
RemoveWhitespace(text) == SelectSeq(text, LAMBDA ch : ch # " ")

\* onlyDigits
onlyDigits(text) == SelectSeq(text, LAMBDA ch : ch \in DigitChars)

\* the decimal digits of a natural number
RECURSIVE Digits(_)
Digits(n) == IF n < 10 THEN <<ToString(n)>> ELSE Digits(n \div 10) \o <<ToString(n % 10)>>

\* the amount rounded to whole units
formatAmount_Whole(d) == Digits(RoundDiv(d, 1000)) \o <<".", "0", "0">>

\* formatAmount: d.Round(2).StringFixed(2)
formatAmount(d) ==
    LET cents == RoundDiv(d, 10)
    IN Digits(cents \div 100) \o <<".">> \o <<ToString((cents % 100) \div 10)>>
          \o <<ToString(cents % 10)>>

\* sha512.Sum384 and hex.EncodeToString, taken as collision-free
Sum384(cadena) == <<"sha384", cadena>>

\* CufeCalculatorService.Calculate
Calculate(p) ==
    LET numFac == RemoveWhitespace(p.NumFac)
        nitOfe == onlyDigits(p.NitOfe)
        docAdq == onlyDigits(p.DocAdq)
        tipoAmb == IF p.TipoAmb = <<>> THEN <<"1">> ELSE p.TipoAmb
        cadena == numFac \o p.FecFac \o formatAmount(p.ValFac)
                    \o CodImpIVA \o formatAmount(p.ValImp_01)
                    \o CodImpImpoconsumo \o formatAmount(p.ValImp_04)
                    \o CodImpICA \o formatAmount(p.ValImp_03)
                    \o formatAmount(p.ValPag)
                    \o nitOfe \o docAdq \o p.ClTec \o tipoAmb
    IN IF numFac = <<>> \/ p.FecFac = <<>> \/ nitOfe = <<>> \/ docAdq = <<>> \/ p.ClTec = <<>>
       THEN [err |-> TRUE, cufe |-> <<>>]
       ELSE [err |-> FALSE, cufe |-> Sum384(cadena)]

\* a first call on any input
CalculateFirst ==
    /\ cufeRun = <<>>
    /\ \E p \in CufeParams : cufeRun' = <<[params |-> p, changed |-> "none", out |-> Calculate(p)]>>
    /\ UNCHANGED <<dbVars, stockLock, productLock, tx, reqs, tasks, soapCalls, config,
                   initStock, sale, http, nitRun>>

\* a further call on the input of the last one with one field changed
CalculateChanged ==
    /\ cufeRun # <<>>
    /\ Len(cufeRun) < MaxCufeCalls
    /\ LET last == cufeRun[Len(cufeRun)].params
       IN \E f \in CufeFields :
             \E v \in {q[f] : q \in CufeParams} \ {last[f]} :
                LET p == [last EXCEPT ![f] = v]
                IN cufeRun' = Append(cufeRun,
                                     [params |-> p, changed |-> f, out |-> Calculate(p)])
    /\ UNCHANGED <<dbVars, stockLock, productLock, tx, reqs, tasks, soapCalls, config,
                   initStock, sale, http, nitRun>>

NextCufe == CalculateFirst \/ CalculateChanged

SpecCufe == InitEmpty /\ [][NextCufe]_vars

\* C19 as stated: with all other inputs fixed, changing any one of number,
\* date, net total, tax total, grand total, emitter id, receiver id, technical
\* key or environment yields a different CUFE
C19_AnyChangeChangesCufe ==
    \A i \in DOMAIN cufeRun :
        (i > 1 /\ ~cufeRun[i].out.err /\ ~cufeRun[i - 1].out.err)
            => cufeRun[i].out.cufe # cufeRun[i - 1].out.cufe

\* what the CUFE keeps of a field: the number without whitespace, the digits
\* of an id, an amount in cents, an empty environment read as "1"
Significant(f, v) ==
    CASE f = "NumFac" -> SelectSeq(v, LAMBDA ch : ch # " ")
      [] f \in {"NitOfe", "DocAdq"} -> SelectSeq(v, LAMBDA ch : ch \in DigitChars)
      [] f \in {"ValFac", "ValImp_01", "ValPag"} -> <<RoundDiv(v, 10)>>
      [] f = "TipoAmb" -> IF v = <<>> THEN <<"1">> ELSE v
      [] OTHER -> v

\* C19: with all other inputs fixed, changing any one of the nine inputs to a
\* value that differs in what the CUFE keeps of it (number without whitespace,
\* digits of the ids, amounts rounded to 2 decimals, empty environment = "1")
\* yields a different CUFE; a change that does not differ in that yields the same
C19_SignificantChangeChangesCufe ==
    \A i \in DOMAIN cufeRun :
        (i > 1 /\ ~cufeRun[i].out.err /\ ~cufeRun[i - 1].out.err)
            => LET f == cufeRun[i].changed
               IN (cufeRun[i].out.cufe # cufeRun[i - 1].out.cufe)
                     <=> (Significant(f, cufeRun[i].params[f])
                             # Significant(f, cufeRun[i - 1].params[f]))

C19_Witness ==
    /\ Len(cufeRun) = 2
    /\ cufeRun[2].changed = "ValFac"
    /\ cufeRun[1].params.ValFac = 1004
    /\ cufeRun[2].params.ValFac = 1010
    /\ ~cufeRun[1].out.err /\ ~cufeRun[2].out.err
    /\ cufeRun[1].out.cufe # cufeRun[2].out.cufe

\* ------------------------------------------------ NIT check digit
\* ValidateNITVerificationDigit and ComputeNITVerificationDigit on tax ids
\* written as nine digits, a hyphen and the check digit. A text is a sequence
\* of one-character strings.
MaxRootDigit == 1
MaxNitCalls == 2

\* the first weight a multiple of 11
nitWeights_Multiple == <<44, 37, 29, 23, 19, 17, 13, 7, 3>>

\* var nitWeights
nitWeights == <<41, 37, 29, 23, 19, 17, 13, 7, 3>>

\* int(d - '0') and byte('0' + n)
DigitValue(ch) == CHOOSE n \in 0..9 : ToString(n) = ch
DigitChar(n) == ToString(n)

\* extractDigits
extractDigits(text) == SelectSeq(text, LAMBDA ch : ch \in DigitChars)

\* sum of digit x weight over the first nine digits, from position i on
RECURSIVE WeightedSum(_, _)
WeightedSum(digits, i) ==
    IF i > 9 THEN 0 ELSE DigitValue(digits[i]) * nitWeights[i] + WeightedSum(digits, i + 1)

\* remainder 0 or 1 is the digit itself, any other remainder r gives 11 - r
ExpectedDigit(digits) ==
    LET remainder == WeightedSum(digits, 1) % 11
    IN IF remainder = 0 \/ remainder = 1 THEN DigitChar(remainder)
       ELSE DigitChar(11 - remainder)

\* ComputeNITVerificationDigit
ComputeNITVerificationDigit(taxID) ==
    LET digits == extractDigits(taxID)
    IN IF Len(digits) < 9 THEN [err |-> TRUE, digit |-> "0"]
       ELSE [err |-> FALSE, digit |-> ExpectedDigit(digits)]

\* ValidateNITVerificationDigit
ValidateNITVerificationDigit(taxID) ==
    LET digits == extractDigits(taxID)
    IN IF Len(digits) < 9 THEN "too-short"
       ELSE IF Len(digits) = 10
            THEN IF digits[10] # ExpectedDigit(digits) THEN "invalid-check-digit" ELSE "ok"
       ELSE "missing-check-digit"

NitRoots == [1..9 -> {DigitChar(n) : n \in 0..MaxRootDigit}]

\* position i of the ten digits in the text "ddddddddd-d"
TextPosition(i) == IF i = 10 THEN 11 ELSE i

\* the check digit of a root is computed, appended and the result validated
ValidateComputed ==
    /\ nitRun = <<>>
    /\ \E root \in NitRoots :
          LET c == ComputeNITVerificationDigit(root)
              taxID == root \o <<"-", c.digit>>
          IN nitRun' = <<[taxID |-> taxID, changed |-> 0,
                          verdict |-> IF c.err THEN "too-short"
                                      ELSE ValidateNITVerificationDigit(taxID)]>>
    /\ UNCHANGED <<dbVars, stockLock, productLock, tx, reqs, tasks, soapCalls, config,
                   initStock, sale, http, cufeRun>>

\* one of the ten digits of the tax id validated before is replaced by another
\* digit and the result validated
ValidateAltered ==
    /\ nitRun # <<>>
    /\ Len(nitRun) < MaxNitCalls
    /\ \E i \in 1..10, ch \in DigitChars :
          LET old == nitRun[Len(nitRun)].taxID
              taxID == [old EXCEPT ![TextPosition(i)] = ch]
          IN /\ taxID # old
             /\ nitRun' = Append(nitRun, [taxID |-> taxID, changed |-> i,
                                           verdict |-> ValidateNITVerificationDigit(taxID)])
    /\ UNCHANGED <<dbVars, stockLock, productLock, tx, reqs, tasks, soapCalls, config,
                   initStock, sale, http, cufeRun>>

NextNit == ValidateComputed \/ ValidateAltered

SpecNit == InitEmpty /\ [][NextNit]_vars

\* C20 as stated: a 9-digit root followed by its computed check digit passes
\* validation, and changing any single one of the ten digits makes validation
\* fail with the invalid-check-digit error
C20_AnyAlterationFails ==
    \A i \in DOMAIN nitRun :
        /\ i = 1 => nitRun[i].verdict = "ok"
        /\ i = 2 => nitRun[i].verdict = "invalid-check-digit"

\* the remainder modulo 11 of the weighted sum of the root of a tax id
Remainder(taxID) == WeightedSum(extractDigits(taxID), 1) % 11

\* C20: a 9-digit root followed by its computed check digit passes validation;
\* changing the check digit makes validation fail with the invalid-check-digit
\* error, and so does changing one digit of the root, except when the
\* remainders before and after are 1 and 10, which share the check digit 1:
\* then the altered NIT passes
C20_AlterationFailsUnlessSameDigit ==
    \A i \in DOMAIN nitRun :
        /\ i = 1 => nitRun[i].verdict = "ok"
        /\ i = 2 =>
              LET before == Remainder(nitRun[1].taxID)
                  after == Remainder(nitRun[2].taxID)
              IN IF nitRun[2].changed # 10 /\ {before, after} = {1, 10}
                 THEN nitRun[2].verdict = "ok"
                 ELSE nitRun[2].verdict = "invalid-check-digit"

C20_Witness ==
    /\ Len(nitRun) = 2
    /\ nitRun[1].verdict = "ok"
    /\ nitRun[2].changed = 1
    /\ nitRun[2].verdict = "invalid-check-digit"

\* --------------------------------------------- a stop in mid-orchestration
\* task k has passed the entry check on a DRAFT invoice and has not returned
InFlight(k) == tasks[k].pc \in {"build", "zip", "persist"} /\ tasks[k].entry = DIANStatusDraft

\* C21: while an orchestration task is in flight, at whatever step, the
\* persisted status of its invoice is DRAFT, so that the entry check of a run
\* dispatched after a stop of the process would let it through
C21_InFlightIsDraft ==
    \A k \in DOMAIN tasks :
        InFlight(k) =>
            /\ RowOf(tasks[k].inv).status = DIANStatusDraft
            /\ EntryCheck(RowOf(tasks[k].inv).status)

\* ----------------------------------------------------- waits on row locks
\* the stock row that the next statement of connection t reads FOR UPDATE
LockingReadOf(t) ==
    CASE tx[t].pc \in {"in_lock", "out_lock", "tr_lock"} -> {<<tx[t].p, tx[t].w>>}
      [] tx[t].pc = "inv_lock" -> {<<tx[t].items[tx[t].i].p, tx[t].w>>}
      [] OTHER -> {}

\* the stock row that the next statement of connection t upserts
UpsertOf(t) ==
    CASE tx[t].pc \in {"in_upsert", "out_upsert", "tr_upsert_origin"} -> {<<tx[t].p, tx[t].w>>}
      [] tx[t].pc = "tr_upsert_dest" -> {<<tx[t].p, tx[t].to>>}
      [] tx[t].pc = "inv_upsert" -> {<<tx[t].items[tx[t].i].p, tx[t].w>>}
      [] OTHER -> {}

\* the next statement of t waits for a stock-row lock that u holds
WaitsFor(t, u) ==
    /\ t # u
    /\ \/ \E k \in LockingReadOf(t) : ~GetForUpdate(t, k).enabled /\ stockLock[k] = u
       \/ \E k \in UpsertOf(t) : ~UpsertEnabled(t, k) /\ stockLock[k] = u

\* C22: no interleaving of concurrent multi-row inventory operations (invoices
\* with several lines, transfers in opposite directions) reaches a deadlock:
\* never do two transactions each wait for a stock row the other has locked
C22_NoDeadlock == \A t, u \in TxIds : ~(WaitsFor(t, u) /\ WaitsFor(u, t))

\* --------------------------------------------- TRANSFER and its destination
MovementKinds == {"IN", "OUT", "ADJUSTMENT", "TRANSFER"}

\* what the movement request i, once committed, adds to the stock row k
Delta(i, k) ==
    CASE reqs[i].kind \in {"IN", "ADJUSTMENT"} ->
            IF <<reqs[i].p, reqs[i].w>> = k THEN reqs[i].qty ELSE 0
      [] reqs[i].kind = "OUT" ->
            IF <<reqs[i].p, reqs[i].w>> = k THEN 0 - reqs[i].qty ELSE 0
      [] reqs[i].kind = "TRANSFER" ->
            (IF <<reqs[i].p, reqs[i].w>> = k THEN 0 - reqs[i].qty ELSE 0)
            + (IF <<reqs[i].p, reqs[i].to>> = k THEN reqs[i].qty ELSE 0)
      [] OTHER -> 0

\* request i is a TRANSFER and request j another movement on the destination
\* row of i; both ran at the same time and both succeeded
TransferAndOther(i, j) ==
    /\ Len(reqs) = 2 /\ i # j
    /\ reqs[i].kind = "TRANSFER" /\ reqs[j].kind \in MovementKinds
    /\ reqs[i].result = "ok" /\ reqs[j].result = "ok"
    /\ Delta(j, <<reqs[i].p, reqs[i].to>>) # 0

\* C23: a TRANSFER that ran concurrently with another movement (IN, OUT,
\* ADJUSTMENT or TRANSFER) on its destination row loses no update: the final
\* quantity of the destination is its initial quantity plus the transferred
\* quantity plus the delta of the other movement
C23_TransferKeepsDestination ==
    \A i, j \in DOMAIN reqs :
        TransferAndOther(i, j) =>
            LET k == <<reqs[i].p, reqs[i].to>> IN
            stock[k].quantity = initStock[k].quantity + reqs[i].qty + Delta(j, k)

\* ------------------------------------------------------------ OUT is exact
\* the statements of an OUT of qty on (p, w) for request req, applied by
\* connection t in this step: the row is written with exactly qty less than it
\* holds, and one movement is appended: type OUT, quantity -qty, the product's
\* cost in force, total -qty * cost
OutApplied(t, req, p, w, qty) ==
    /\ tx'[t].wStock[<<p, w>>] = Row(VisibleRow(t, <<p, w>>).quantity - qty)
    /\ tx'[t].wMov = Append(tx[t].wMov,
                            Movement(req, p, w, "OUT", 0 - qty, VisibleCost(t, p)))

\* the OUT of qty on (p, w) of connection t is refused in this step with
\* InsufficientStock: the stock is below qty, and no table changes
OutRefused(t, p, w, qty) ==
    /\ VisibleRow(t, <<p, w>>).quantity < qty
    /\ UNCHANGED <<stock, movements>>

\* C24: a successful OUT of qty on (product, warehouse), standalone or a line
\* of an invoice, writes the stock row with exactly qty less and appends
\* exactly one movement with quantity -qty, the product's cost in force when it
\* is applied and total -qty * cost, and its commit takes exactly qty from the
\* stored row and adds that one movement; an OUT refused with
\* InsufficientStock had stock < qty and changes neither stock nor movements
C24_OutIsExact ==
    [][\A t \in TxIds :
          /\ (tx[t].kind = "OUT" /\ tx[t].pc = "out_upsert" /\ tx'[t].pc = "commit")
                => OutApplied(t, tx[t].req, tx[t].p, tx[t].w, tx[t].qty)
          /\ (tx[t].pc = "inv_upsert" /\ tx'[t].pc \in {"inv_lock", "inv_create"})
                => OutApplied(t, tx[t].req, tx[t].items[tx[t].i].p, tx[t].w,
                              tx[t].items[tx[t].i].qty)
          /\ (tx[t].kind = "OUT" /\ tx[t].pc = "commit" /\ tx'[t].pc = "idle"
              /\ reqs'[tx[t].req].result = "ok")
                => /\ stock'[<<tx[t].p, tx[t].w>>].quantity
                         = stock[<<tx[t].p, tx[t].w>>].quantity - tx[t].qty
                   /\ Len(movements') = Len(movements) + 1
          /\ (tx[t].kind = "OUT" /\ tx[t].pc = "out_lock"
              /\ reqs'[tx[t].req].result = "InsufficientStock")
                => OutRefused(t, tx[t].p, tx[t].w, tx[t].qty)
          /\ (tx[t].pc = "inv_lock" /\ reqs'[tx[t].req].result = "InsufficientStock")
                => OutRefused(t, tx[t].items[tx[t].i].p, tx[t].w, tx[t].items[tx[t].i].qty)]_vars

\* ------------------------------------------- application cost and trigger
\* C25: for every IN movement, the product cost that doIN wrote with
\* CostCalculator equals the cost the trigger computes from the product's IN
\* history when the movement is inserted: the INSERT leaves the cost that the
\* transaction had written as it is
C25_AppCostIsTriggerCost ==
    [][\A t \in TxIds :
          (tx[t].kind = "IN" /\ tx[t].pc = "in_upsert" /\ tx'[t].pc = "commit")
          => tx'[t].wCost[tx[t].p] = tx[t].wCost[tx[t].p]]_vars

\* ------------------------------------------------------ sign of movements
\* the TRANSFER movements recorded under transaction-id id
TransfersOf(id) == SelectSeq(movements, LAMBDA m : m.tx = id /\ m.type = "TRANSFER")

\* C26: every persisted movement carries the sign of its type: IN has
\* quantity > 0, OUT has quantity < 0, and the TRANSFER movements of one
\* transaction-id are exactly two, -q at the source and +q at the destination
C26_MovementSigns ==
    \A i \in DOMAIN movements :
        LET m == movements[i] IN
        /\ m.type = "IN" => m.qty > 0
        /\ m.type = "OUT" => m.qty < 0
        /\ m.type = "TRANSFER" =>
              LET pair == TransfersOf(m.tx) IN
              /\ Len(pair) = 2
              /\ pair[1].qty < 0 /\ pair[2].qty = 0 - pair[1].qty
              /\ pair[1].p = pair[2].p /\ pair[1].w # pair[2].w

\* ------------------------------------------------ invoices and inventory
\* the commit of the invoice of connection t adds, for each of its lines, one
\* OUT movement in the requested warehouse with the invoice id as
\* transaction-id and minus the line quantity, and takes the quantities from the
\* stock rows
InvoiceDeductsStock(t) ==
    LET id == tx[t].req
        items == tx[t].items
        added == MovementsOf(movements', id)
    IN /\ MovementsOf(movements, id) = <<>>
       /\ Len(added) = Len(items)
       /\ \A i \in DOMAIN items :
             /\ added[i].type = "OUT" /\ added[i].tx = id
             /\ added[i].p = items[i].p /\ added[i].w = tx[t].w
             /\ added[i].qty = 0 - items[i].qty
       /\ \A k \in StockKeys :
             stock'[k].quantity =
                stock[k].quantity - (IF k[2] = tx[t].w THEN SumItems(items, k[1]) ELSE 0)

\* C27: for a company whose inventory module is active, the commit of an
\* invoice records one OUT movement per line (requested warehouse, the invoice
\* id as transaction-id, minus the line quantity) and reduces the stock
\* accordingly; for a company without the module it changes no stock row and
\* appends no movement
C27_InvoiceInventory ==
    [][\A t \in TxIds :
          (tx[t].kind = "INVOICE" /\ tx[t].pc = "commit" /\ tx'[t].pc = "dispatch") =>
             IF config.hasInventory
             THEN InvoiceDeductsStock(t)
             ELSE UNCHANGED <<stock, movements>>]_vars

\* ---------------------------------------------- the outcome of the submit
\* task k ran in test or prod with a submitter, started on a DRAFT invoice,
\* reached the submit step and every Update it attempted succeeded
Submitted(k) ==
    /\ NormalizeAppEnv(config.appEnv) \in {AppEnvTest, AppEnvProd}
    /\ SubmitterInjected
    /\ tasks[k].pc = "done" /\ tasks[k].entry = DIANStatusDraft
    /\ tasks[k].failure \in {"none", "soap"}
    /\ AllUpdatesOk(k)

\* C28: in test and prod the final status follows the submit outcome: a
\* transport failure gives GENERATION_ERROR, and REJECTED is persisted only for
\* a structured rejection by DIAN, with the tracking id and the joined error
\* list stored with it; any other status of a run that submitted is ACCEPTED
C28_StatusFollowsSubmit ==
    \A k \in DOMAIN tasks :
        Submitted(k) =>
            LET row == RowOf(tasks[k].inv) IN
            /\ tasks[k].failure = "soap" <=> row.status = DIANStatusErrorGeneration
            /\ row.status = DIANStatusRechazado =>
                  row.track = "TRACK-ID" /\ row.errors = "rejected"
            /\ row.status \in {DIANStatusErrorGeneration, DIANStatusRechazado,
                               DIANStatusExitoso}

\* ------------------------------------------------- the end of a run
\* C29: every orchestration task started on a DRAFT invoice, once it has
\* returned, has left the invoice persisted in ACCEPTED, REJECTED or
\* GENERATION_ERROR, never in DRAFT or SIGNED, whichever step failed (a
\* repository write and the expiry of the context during the submission
\* included)
C29_EndsInTerminalStatus ==
    \A k \in DOMAIN tasks :
        (tasks[k].pc = "done" /\ tasks[k].entry = DIANStatusDraft)
        => RowOf(tasks[k].inv).status \in TerminalStatuses

\* --------------------------------------------- stock and movement ledger
RECURSIVE SumMovements(_, _)
SumMovements(s, k) ==
    IF s = <<>> THEN 0
    ELSE (IF <<Head(s).p, Head(s).w>> = k THEN Head(s).qty ELSE 0) + SumMovements(Tail(s), k)

\* C30: for every (product, warehouse) the stock quantity equals the signed
\* sum of the quantities of the committed movements of that pair, after any
\* interleaving of IN, OUT, ADJUSTMENT, TRANSFER and invoice transactions, the
\* first movements on a pair that has no stock row yet included
C30_StockIsSumOfMovements ==
    \A k \in StockKeys : stock[k].quantity = SumMovements(movements, k)
====
